---- MODULE Spec2Model ----
(***************************************************************************)
(* Verification model of rusticl's kernel-argument handling                *)
(* (src/gallium/frontends/rusticl/core/kernel.rs): the per-kernel value    *)
(* vector and its mutex, the dispatch closure returned by Kernel::launch   *)
(* (argument marshalling and grid tiling), the (de)serialization of the    *)
(* lowered argument lists and the shader-cache path of                     *)
(* convert_spirv_to_nir.                                                   *)
(***************************************************************************)
EXTENDS Integers, Sequences, FiniteSets, TLC

VARIABLES
    \* ---- Kernel object shared by host threads (kernel.rs:391-398)
    values,        \* Kernel::values, the Mutex-protected Vec<Option<KernelArgValue>>
    lockOwner,     \* holder of the Mutex around values, or NoThread
    pc,            \* position of every host thread in set_kernel_arg / launch
    callArg,       \* (idx, arg) of the set_kernel_arg call a thread is executing
    result,        \* the call that returned last: its thread and its CLResult
    arg_values,    \* launch: the clone of the value vector (being) taken
    dispatched,    \* the values the dispatch closure marshalled when it ran
    \* ---- one run of the dispatch closure (kernel.rs:1043-1358)
    kernel,        \* what the closure captured: kernel_info.args, arg_values,
                   \* nir_kernel_build (internal_args, shared_size, printf_info),
                   \* grid, and the device's address_bits and max_grid_size
    cpc,           \* position of the closure
    locals,        \* its locals: input, resource_info, samplers, views, tables, ...
    ai,            \* number of user arguments the loop at line 1086 has visited
    tile,          \* the loop counters <<x, y, z>> of the tiling loop
    cb0,           \* the buffer last uploaded by update_cb0
    calls,         \* the calls made on the PipeContext, in order
    cres,          \* the CLResult the closure returned
    \* ---- one cache entry written and read back (kernel.rs:866-900)
    sin,           \* what is serialized: the nir, the args and the internal_args
    blob,          \* the bytes of the blob / cache entry
    tamper,        \* what happened to the entry between put and get
    spc,           \* position: "start", "written", "stored", "read"
    sout,          \* what SPIRVToNirResult::deserialize and its two callees returned
    \* ---- one call of convert_spirv_to_nir (kernel.rs:903-934)
    cache,         \* the device's shader cache: None, or Some of its entries by key
    cname,         \* the name of the kernel being converted
    ckey,          \* the local `key`
    entry,         \* what cache.get returned
    xpc,           \* position of the call
    xres,          \* the SPIRVToNirResult returned and where it came from
    \* ---- one run of lower_and_optimize_nir (kernel.rs:491-836)
    lin,           \* its inputs: the SPIR-V arguments and what the shader does
    nvars,         \* the uniform and image variables of the shader, in list order
    largs,         \* the local `args`
    linternal,     \* the local `internal_args`
    lpc,           \* position of the run
    \* ---- one call of suggest_local_size / optimize_local_size (kernel.rs:964-1019)
    ls_in,         \* its inputs: work_dim, grid, block and the device's limits
    ls_grid,       \* the grid slice, adjusted in place
    ls_block,      \* the block slice
    ls_threads,    \* the local `threads`
    ls_i,          \* the loop counter of the first loop
    ls_pc,         \* position of the call
    ls_note,       \* what the call did: whether a per-dimension limit was the
                   \* smaller operand of cmp::min, and which dimension was folded
    \* ---- one call of encode_sm50_shader (nak/sm50.rs:2743-2807)
    sm_func,       \* s.functions[0]: its blocks, each a label and its instructions
    sm_labels,     \* the local `labels`: the address stored for every label so far
    sm_num_instrs, \* the local `num_instrs` of the first loop (a byte count)
    sm_encoded,    \* the local `encoded`, one element per 64-bit word
    sm_b,          \* the block the running loop is at
    sm_g,          \* the group of 3 the inner loop is at
    sm_pc,         \* position of the call
    \* ---- one instruction through legalize_op and encode (nak/sm50.rs:46-119)
    op_in,         \* the instruction as built, before legalization
    op_leg,        \* the instruction after SM50Op::legalize
    op_copies,     \* the copies the LegalizeBuilder emitted in front of it
    op_e,          \* the SM50Encoder: the fields written so far and its status
    op_pc,         \* position: "built", "legalized", "encoded", "panicked"
    \* ---- one call of set_src_imm_i20 / set_src_imm_f20 (nak/sm50.rs:211-235)
    imm_in,        \* the 32-bit argument, as its two 16-bit halves
    imm_out,       \* the fields written, or the failed assertion
    imm_pc         \* position of the call

kvars == <<values, lockOwner, pc, callArg, result, arg_values, dispatched>>

dvars == <<kernel, cpc, locals, ai, tile, cb0, calls, cres>>

svars == <<sin, blob, tamper, spc, sout>>

cvars == <<cache, cname, ckey, entry, xpc, xres>>

lvars == <<lin, nvars, largs, linternal, lpc>>

zvars == <<ls_in, ls_grid, ls_block, ls_threads, ls_i, ls_pc, ls_note>>

evars == <<sm_func, sm_labels, sm_num_instrs, sm_encoded, sm_b, sm_g, sm_pc>>

ovars == <<op_in, op_leg, op_copies, op_e, op_pc, imm_in, imm_out, imm_pc>>

vars == <<kvars, dvars, svars, cvars, lvars, zvars, evars, ovars>>

-----------------------------------------------------------------------------
(* Generic helpers *)

Min(a, b) == IF a < b THEN a ELSE b

Max(a, b) == IF a > b THEN a ELSE b

\* Option<T>: None is the empty sequence, Some(v) the one-element sequence.
None == <<>>

Some(v) == <<v>>

IsSome(o) == Len(o) = 1

Unwrap(o) == o[1]

Range(s) == {s[i] : i \in 1..Len(s)}

-----------------------------------------------------------------------------
(* Error codes *)

CL_INVALID_ARG_INDEX == -49

CL_OUT_OF_RESOURCES == -5

Ok == <<"Ok", 0>>

Err(code) == <<"Err", code>>

\* no call has returned yet
NoResult == <<"none", 0>>

-----------------------------------------------------------------------------
(* Part 1: Kernel::set_kernel_arg and Kernel::launch on one shared Kernel   *)

\* number of host threads calling set_kernel_arg
NumSetters == 2

\* kernel_info.args.len(): the length of the value vector (Kernel::new)
NumArgs == 2

\* number of distinct KernelArgValue objects the host binds
NumValues == 2

Setters == 1..NumSetters

Launcher == NumSetters + 1

Threads == Setters \cup {Launcher}

NoThread == 0

ValuePool == 1..NumValues

\* indices a caller may pass: in range (0-based) and one past the end
ArgIndices == 0..NumArgs

\* block sizes a caller may pass to launch, by whether u32::try_from accepts them
BlockInputs == {"fits_u32", "exceeds_u32"}

NoCall == [idx |-> 0, arg |-> 0]

\* Kernel::new: one None slot per kernel argument, unlocked mutex
KernelInit ==
    /\ values = [i \in 1..NumArgs |-> None]
    /\ lockOwner = NoThread
    /\ pc = [t \in Threads |-> "idle"]
    /\ callArg = [t \in Setters |-> NoCall]
    /\ result = [thread |-> NoThread, value |-> NoResult]
    /\ arg_values = <<>>
    /\ dispatched = <<>>

\* the closure variables while no closure is modelled
DispatchIdle ==
    /\ kernel = <<>>
    /\ cpc = "none"
    /\ locals = <<>>
    /\ ai = 0
    /\ tile = <<0, 0, 0>>
    /\ cb0 = <<>>
    /\ calls = <<>>
    /\ cres = NoResult

\* no cache entry is being written or read
SerdeIdle ==
    /\ sin = <<>>
    /\ blob = <<>>
    /\ tamper = [what |-> "none", at |-> 0]
    /\ spc = "none"
    /\ sout = <<>>

\* no kernel is being converted
CacheIdle ==
    /\ cache = <<>>
    /\ cname = 0
    /\ ckey = <<>>
    /\ entry = <<>>
    /\ xpc = "none"
    /\ xres = <<>>

\* no shader is being lowered
LowerIdle ==
    /\ lin = <<>>
    /\ nvars = <<>>
    /\ largs = <<>>
    /\ linternal = <<>>
    /\ lpc = "none"

\* no local size is being computed
LocalSizeIdle ==
    /\ ls_in = <<>>
    /\ ls_grid = <<>>
    /\ ls_block = <<>>
    /\ ls_threads = 0
    /\ ls_i = 0
    /\ ls_pc = "none"
    /\ ls_note = <<>>

\* no shader is being encoded
EncodeIdle ==
    /\ sm_func = <<>>
    /\ sm_labels = <<>>
    /\ sm_num_instrs = 0
    /\ sm_encoded = <<>>
    /\ sm_b = 0
    /\ sm_g = 0
    /\ sm_pc = "none"

\* no instruction is being legalized or encoded
InstrIdle ==
    /\ op_in = <<>>
    /\ op_leg = <<>>
    /\ op_copies = <<>>
    /\ op_e = <<>>
    /\ op_pc = "none"
    /\ imm_in = <<>>
    /\ imm_out = <<>>
    /\ imm_pc = "none"

\* (variant: the bound check accepts idx = len)
InRangeOffByOne(vec, idx) == idx <= Len(vec)

\* Vec::get_mut(idx): the slot exists iff idx < len (idx is a usize, 0-based)
InRange(vec, idx) == idx < Len(vec)

\* Option::replace on slot idx of the vector
ReplaceSlot(vec, idx, arg) == [vec EXCEPT ![idx + 1] = Some(arg)]

\* self.values.lock(): set_kernel_arg is entered with (idx, arg) and blocks
\* until the mutex is free
SetKernelArgLock(t, idx, arg) ==
    /\ pc[t] = "idle"
    /\ lockOwner = NoThread
    /\ lockOwner' = t
    /\ pc' = [pc EXCEPT ![t] = "set_locked"]
    /\ callArg' = [callArg EXCEPT ![t] = [idx |-> idx, arg |-> arg]]
    /\ UNCHANGED <<values, result, arg_values, dispatched>>

\* .get_mut(idx).ok_or(CL_INVALID_ARG_INDEX)?.replace(arg); Ok(())
\* the guard is a temporary: the mutex is released on both paths
SetKernelArgBody(t) ==
    /\ pc[t] = "set_locked"
    /\ lockOwner = t
    /\ LET idx == callArg[t].idx
           arg == callArg[t].arg
       IN IF InRange(values, idx)
          THEN /\ values' = ReplaceSlot(values, idx, arg)
               /\ result' = [thread |-> t, value |-> Ok]
          ELSE /\ values' = values
               /\ result' = [thread |-> t, value |-> Err(CL_INVALID_ARG_INDEX)]
    /\ lockOwner' = NoThread
    /\ pc' = [pc EXCEPT ![t] = "idle"]
    /\ callArg' = [callArg EXCEPT ![t] = NoCall]
    /\ UNCHANGED <<arg_values, dispatched>>

\* (variant: launch clones the vector without waiting for the mutex)
LaunchGuardNoLock == TRUE

\* self.arg_values(): launch locks the mutex before cloning
LaunchGuard == lockOwner = NoThread

\* launch(q, work_dim, block, grid, offsets): entry, self.arg_values()
\* (the block slice is read only by LaunchReturn, which draws it)
LaunchLock ==
    /\ pc[Launcher] = "idle"
    /\ LaunchGuard
    /\ lockOwner' = IF lockOwner = NoThread THEN Launcher ELSE lockOwner
    /\ pc' = [pc EXCEPT ![Launcher] = "cloning"]
    /\ arg_values' = <<>>
    /\ dispatched' = <<>>
    /\ UNCHANGED <<values, callArg, result>>

\* .clone(): Vec::clone copies the elements one after the other
LaunchCloneElem ==
    /\ pc[Launcher] = "cloning"
    /\ Len(arg_values) < Len(values)
    /\ arg_values' = Append(arg_values, values[Len(arg_values) + 1])
    /\ UNCHANGED <<values, lockOwner, pc, callArg, result, dispatched>>

\* the clone is complete; the guard is still alive
LaunchCloneDone ==
    /\ pc[Launcher] = "cloning"
    /\ Len(arg_values) = Len(values)
    /\ pc' = [pc EXCEPT ![Launcher] = "cloned"]
    /\ UNCHANGED <<values, lockOwner, callArg, result, arg_values, dispatched>>

\* end of the statement: the temporary MutexGuard is dropped
LaunchUnlock ==
    /\ pc[Launcher] = "cloned"
    /\ lockOwner' = IF lockOwner = Launcher THEN NoThread ELSE lockOwner
    /\ pc' = [pc EXCEPT ![Launcher] = "unlocked"]
    /\ UNCHANGED <<values, callArg, result, arg_values, dispatched>>

\* create_kernel_arr::<u32>(block, 1)?: try_into fails above u32::MAX
create_kernel_arr_u32(v) == IF v = "fits_u32" THEN Ok ELSE Err(CL_OUT_OF_RESOURCES)

\* the rest of launch: the conversions that may fail, then Ok(Box::new(move |q, ctx| ..))
LaunchReturn(block) ==
    /\ pc[Launcher] = "unlocked"
    /\ LET r == create_kernel_arr_u32(block)
       IN /\ result' = [thread |-> Launcher, value |-> r]
          /\ pc' = [pc EXCEPT ![Launcher] = IF r = Ok THEN "enqueued" ELSE "idle"]
          /\ arg_values' = IF r = Ok THEN arg_values ELSE <<>>
    /\ UNCHANGED <<values, lockOwner, callArg, dispatched>>

\* (variant: the closure reads the kernel's live vector instead of its clone)
ClosureValuesLive == values

\* the vector the closure zips with kernel_info.args: its captured clone
ClosureValues == arg_values

\* the queue runs the returned closure, which marshals ClosureValues
ClosureRun ==
    /\ pc[Launcher] = "enqueued"
    /\ pc' = [pc EXCEPT ![Launcher] = "ran"]
    /\ dispatched' = ClosureValues
    /\ UNCHANGED <<values, lockOwner, callArg, result, arg_values>>

\* the closure is dropped after it ran
ClosureDrop ==
    /\ pc[Launcher] = "ran"
    /\ pc' = [pc EXCEPT ![Launcher] = "idle"]
    /\ arg_values' = <<>>
    /\ dispatched' = <<>>
    /\ UNCHANGED <<values, lockOwner, callArg, result>>

KernelNext ==
    \/ \E t \in Setters, idx \in ArgIndices, arg \in ValuePool : SetKernelArgLock(t, idx, arg)
    \/ \E t \in Setters : SetKernelArgBody(t)
    \/ LaunchLock
    \/ LaunchCloneElem
    \/ LaunchCloneDone
    \/ LaunchUnlock
    \/ \E block \in BlockInputs : LaunchReturn(block)
    \/ ClosureRun
    \/ ClosureDrop

-----------------------------------------------------------------------------
(* Properties of part 1 *)

AfterClone == pc[Launcher] \in {"cloned", "unlocked", "enqueued", "ran"}

\* C1: the vector a launch captures equals the kernel's value vector at the
\* instant its clone completes (under the lock, so never a mix of two states),
\* no later set_kernel_arg changes the capture, and the closure marshals
\* exactly the capture.
C1_SnapshotAtomic ==
    /\ [](pc[Launcher] = "cloned" => arg_values = values)
    /\ [][(AfterClone /\ pc'[Launcher] # "idle") => arg_values' = arg_values]_vars
    /\ [](pc[Launcher] = "ran" => dispatched = arg_values)

\* C1 witness: the closure ran with its capture after a set_kernel_arg had
\* changed the kernel's vector
C1_Witness ==
    /\ pc[Launcher] = "ran"
    /\ dispatched # values
    /\ \E i \in 1..Len(dispatched) : IsSome(dispatched[i])

\* C2: set_kernel_arg(idx, v) with idx >= number of arguments returns
\* CL_INVALID_ARG_INDEX and changes no slot; with idx in range it returns Ok,
\* sets slot idx to Some(v) and changes no other slot.
C2_SetKernelArg ==
    [][\A t \in Setters :
        (pc[t] = "set_locked" /\ pc'[t] = "idle") =>
            LET idx == callArg[t].idx
                v == callArg[t].arg
            IN IF idx >= NumArgs
               THEN /\ result' = [thread |-> t, value |-> Err(CL_INVALID_ARG_INDEX)]
                    /\ values' = values
               ELSE /\ result' = [thread |-> t, value |-> Ok]
                    /\ Len(values') = Len(values)
                    /\ values'[idx + 1] = Some(v)
                    /\ \A j \in 1..Len(values) : j # idx + 1 => values'[j] = values[j]]_vars

\* C2 witness: a call was refused with CL_INVALID_ARG_INDEX after another
\* call had bound a value
C2_Witness ==
    /\ result.thread \in Setters
    /\ result.value = Err(CL_INVALID_ARG_INDEX)
    /\ \E i \in 1..NumArgs : IsSome(values[i])
    /\ \E i \in 1..NumArgs : ~IsSome(values[i])

-----------------------------------------------------------------------------
(* Part 2: the dispatch closure returned by Kernel::launch -- marshalling   *)

\* bytes of a pointer on the device: q.device.address_bits() / 8
PtrSize(bits) == bits \div 8

\* to_ne_bytes / as_byte_slice of an unsigned integer of n bytes (little
\* endian hosts); a wider value is truncated to its low n bytes, as by `as u32`
RECURSIVE LEBytes(_, _)
LEBytes(v, n) == IF n = 0 THEN <<>> ELSE <<v % 256>> \o LEBytes(v \div 256, n - 1)

\* the unsigned integer stored in a little endian byte sequence
RECURSIVE LEValue(_)
LEValue(bytes) == IF bytes = <<>> THEN 0 ELSE bytes[1] + 256 * LEValue(Tail(bytes))

Zeros(n) == [i \in 1..n |-> 0]

\* (variant: the vector is left as it is)
ResizeKeep(vec, n) == vec

\* Vec::resize(n, 0): truncates or zero-extends to exactly n elements
Resize(vec, n) == IF n <= Len(vec) THEN SubSeq(vec, 1, n) ELSE vec \o Zeros(n - Len(vec))

\* usize::next_power_of_two (0 and 1 give 1)
RECURSIVE NextPowerOfTwoFrom(_, _)
NextPowerOfTwoFrom(p, n) == IF p >= n THEN p ELSE NextPowerOfTwoFrom(2 * p, n)

next_power_of_two(n) == NextPowerOfTwoFrom(1, n)

\* mesa_rust_util::math::align(val, a): val rounded up to a multiple of a
align(val, a) == ((val + a - 1) \div a) * a

\* the cap of the alignment of a local-memory argument (0x80)
MaxLocalAlign == 128

ByteKinds == {"Constant", "MemGlobal", "MemConstant", "MemLocal"}

ViewKinds == {"Image", "RWImage", "Texture", "Sampler"}

KernelArgTypes == ByteKinds \cup ViewKinds

\* the marshalling state of the closure before the first argument
MarshalInit(static_local_size) ==
    [status |-> "ok", input |-> <<>>, resource_info |-> <<>>, samplers |-> <<>>,
     iviews |-> <<>>, sviews |-> <<>>, tex_formats |-> <<>>, tex_orders |-> <<>>,
     img_formats |-> <<>>, img_orders |-> <<>>,
     variable_local_size |-> static_local_size, workgroup_id_offset_loc |-> None,
     printf_buf |-> None]

\* add_global: record (res, position) and append the pointer-sized offset
add_global(st, res, offset, bits) ==
    [st EXCEPT !.resource_info = Append(@, <<res, Len(st.input)>>),
               !.input = @ \o LEBytes(offset, PtrSize(bits))]

\* KernelArgValue::Image arm (kernel.rs:1104-1151)
MarshalImage(st, arg, v) ==
    IF ~v.has_res THEN [st EXCEPT !.status = "err"]
    ELSE LET isTex == arg.kind \notin {"Image", "RWImage"}
             formats == IF isTex THEN st.tex_formats ELSE st.img_formats
             orders == IF isTex THEN st.tex_orders ELSE st.img_orders
             st1 == IF arg.kind = "Image"
                    THEN [st EXCEPT !.iviews = Append(@, <<v.res, FALSE>>)]
                    ELSE IF arg.kind = "RWImage"
                    THEN [st EXCEPT !.iviews = Append(@, <<v.res, TRUE>>)]
                    ELSE [st EXCEPT !.sviews = Append(@, v.res)]
             nf == Append(Resize(formats, arg.binding), v.format)
             no == Append(Resize(orders, arg.binding), v.order)
         IN IF arg.binding < Len(formats) THEN [st1 EXCEPT !.status = "panic"]
            ELSE IF isTex THEN [st1 EXCEPT !.tex_formats = nf, !.tex_orders = no]
            ELSE [st1 EXCEPT !.img_formats = nf, !.img_orders = no]

\* (variant: the cursor is not advanced past the argument)
MarshalLocalMemNoAdvance(st, size, bits) ==
    LET pot == Min(size, MaxLocalAlign)
        at == align(st.variable_local_size, next_power_of_two(pot))
    IN [st EXCEPT !.input = @ \o LEBytes(at, PtrSize(bits)),
                  !.variable_local_size = at]

\* KernelArgValue::LocalMem arm (kernel.rs:1152-1166)
MarshalLocalMem(st, size, bits) ==
    LET pot == Min(size, MaxLocalAlign)
        at == align(st.variable_local_size, next_power_of_two(pot))
    IN [st EXCEPT !.input = @ \o LEBytes(at, PtrSize(bits)),
                  !.variable_local_size = at + size]

\* (variant: a dead argument is marshalled like a live one)
SkipDeadNever(arg) == FALSE

\* `if arg.dead { continue; }`
SkipDead(arg) == arg.dead

\* one iteration of the user-argument loop (kernel.rs:1086-1178)
MarshalArg(st, arg, val, bits) ==
    IF st.status # "ok" \/ SkipDead(arg) THEN st
    ELSE LET st0 == IF arg.kind \in ByteKinds
                    THEN [st EXCEPT !.input = Resize(@, arg.offset)] ELSE st
         IN IF ~IsSome(val) THEN [st0 EXCEPT !.status = "panic"]
            ELSE LET v == Unwrap(val)
                 IN CASE v.tag = "Constant" -> [st0 EXCEPT !.input = @ \o v.bytes]
                      [] v.tag = "Buffer" ->
                            IF v.has_res THEN add_global(st0, v.res, v.offset, bits)
                            ELSE [st0 EXCEPT !.status = "err"]
                      [] v.tag = "Image" -> MarshalImage(st0, arg, v)
                      [] v.tag = "LocalMem" -> MarshalLocalMem(st0, v.size, bits)
                      [] v.tag = "Sampler" -> [st0 EXCEPT !.samplers = Append(@, v.sampler)]
                      [] v.tag = "None" ->
                            IF arg.kind \in {"MemGlobal", "MemConstant"}
                            THEN [st0 EXCEPT !.input = @ \o Zeros(PtrSize(bits))]
                            ELSE [st0 EXCEPT !.status = "panic"]

\* the first n iterations of the user-argument loop
RECURSIVE UserArgLoop(_, _, _, _, _)
UserArgLoop(st, args, vals, bits, n) ==
    IF n = 0 THEN st
    ELSE MarshalArg(UserArgLoop(st, args, vals, bits, n - 1), args[n], vals[n], bits)

\* ---- the inputs of a closure run

\* number of user arguments of the kernels whose marshalling is explored
MaxUserArgs == 2

AddressBits == {32, 64}

\* KernelArgValue constructors (one record shape for all variants)
NoFields ==
    [tag |-> "None", res |-> 0, has_res |-> TRUE, offset |-> 0, bytes |-> <<>>,
     format |-> 0, order |-> 0, size |-> 0, sampler |-> 0]

ValNone == NoFields

ValBuffer(res, offset, has_res) ==
    [NoFields EXCEPT !.tag = "Buffer", !.res = res, !.offset = offset, !.has_res = has_res]

ValConstant(bytes) == [NoFields EXCEPT !.tag = "Constant", !.bytes = bytes]

ValImage(res, format, order, has_res) ==
    [NoFields EXCEPT !.tag = "Image", !.res = res, !.format = format, !.order = order,
                     !.has_res = has_res]

ValLocalMem(size) == [NoFields EXCEPT !.tag = "LocalMem", !.size = size]

ValSampler(sampler) == [NoFields EXCEPT !.tag = "Sampler", !.sampler = sampler]

\* the values the host can have bound to argument number i of a given kind
\* (the API layer accepts only a value of the argument's kind), or none yet
ValueChoices(kind, i) ==
    {None} \cup
    CASE kind = "Constant" -> {Some(ValConstant(<<16 * i + 1, 16 * i + 2, 16 * i + 3, 16 * i + 4>>))}
      [] kind \in {"MemGlobal", "MemConstant"} ->
            {Some(ValNone), Some(ValBuffer(i, 256 * i, TRUE))}
      [] kind = "MemLocal" -> {Some(ValLocalMem(4)), Some(ValLocalMem(24)), Some(ValLocalMem(200))}
      [] kind \in {"Image", "RWImage", "Texture"} -> {Some(ValImage(i, 16 + i, 32 + i, TRUE))}
      [] kind = "Sampler" -> {Some(ValSampler(i))}

\* argument kinds drawn for the exploration of the marshalling loop
DrawnKinds == {"Constant", "MemGlobal", "MemLocal", "Image", "Texture", "Sampler"}

\* the format/order table an image argument indexes by its binding
TableOf(kind) == IF kind \in {"Image", "RWImage"} THEN "img"
                 ELSE IF kind = "Texture" THEN "tex" ELSE "none"

\* a KernelArg list as lowering lays it out: slot i at byte offset 8 * (i - 1),
\* bindings counted per table
MkArgs(kinds, deads) ==
    [i \in 1..Len(kinds) |->
        [kind |-> kinds[i],
         size |-> IF kinds[i] = "Constant" THEN 4 ELSE 8,
         offset |-> 8 * (i - 1),
         binding |-> Cardinality({j \in 1..(i - 1) : TableOf(kinds[j]) = TableOf(kinds[i])}),
         dead |-> deads[i]]]

NoGrid == <<1, 1, 1>>

\* the value vectors the host can have bound to a kernel of these kinds
RECURSIVE ValSeqs(_, _)
ValSeqs(kinds, n) ==
    IF n = 0 THEN {<<>>}
    ELSE {Append(p, v) : p \in ValSeqs(kinds, n - 1), v \in ValueChoices(kinds[n], n)}

\* static shared memory sizes (nir.shared_size()) drawn
SharedSizes == {0, 4}

\* ---- the closure, step by step

\* entry of the closure: its locals before the user-argument loop (1044-1068)
ClosureEnter(k) ==
    /\ kernel = k
    /\ cpc = "user_args"
    /\ locals = MarshalInit(k.shared_size)
    /\ ai = 0
    /\ tile = <<0, 0, 0>>
    /\ cb0 = <<>>
    /\ calls = <<>>
    /\ cres = NoResult

\* one iteration of `for (arg, val) in kernel_info.args.iter().zip(arg_values.iter())`
\* a panic unwinds the closure; get_res_of_dev's error is returned with `?`
ClosureUserArg ==
    /\ cpc = "user_args"
    /\ ai < Len(kernel.args)
    /\ LET n == MarshalArg(locals, kernel.args[ai + 1], kernel.arg_values[ai + 1], kernel.bits)
       IN /\ locals' = n
          /\ cpc' = CASE n.status = "panic" -> "panicked"
                      [] n.status = "err" -> "returned"
                      [] OTHER -> "user_args"
          /\ cres' = IF n.status = "err" THEN Err(CL_OUT_OF_RESOURCES) ELSE cres
    /\ ai' = ai + 1
    /\ UNCHANGED <<kernel, tile, cb0, calls>>

\* the loop is over: variable_local_size -= static_local_size (1180-1181)
ClosureUserArgsDone ==
    /\ cpc = "user_args"
    /\ ai = Len(kernel.args)
    /\ locals' = [locals EXCEPT !.variable_local_size = @ - kernel.shared_size]
    /\ cpc' = "printf"
    /\ UNCHANGED <<kernel, ai, tile, cb0, calls, cres>>

\* as_byte_slice of a Vec<u16>
RECURSIVE U16Bytes(_)
U16Bytes(v) == IF v = <<>> THEN <<>> ELSE LEBytes(v[1], 2) \o U16Bytes(Tail(v))

\* as_byte_slice of three words of n bytes each
Vec3Bytes(v, n) == LEBytes(v[1], n) \o LEBytes(v[2], n) \o LEBytes(v[3], n)

\* the resources behind nir_kernel_build.constant_buffer and printf_buf
ConstantBufferRes == 100

PrintfBufRes == 101

\* one iteration of `for arg in &nir_kernel_build.internal_args` (1197-1254)
MarshalInternalArg(m, arg, k) ==
    IF m.status # "ok" THEN m
    ELSE LET m0 == IF arg.offset > Len(m.input)
                   THEN [m EXCEPT !.input = Resize(@, arg.offset)] ELSE m
             ptr == PtrSize(k.bits)
         IN CASE arg.kind = "ConstantBuffer" ->
                    IF k.constant_buffer THEN add_global(m0, ConstantBufferRes, 0, k.bits)
                    ELSE [m0 EXCEPT !.status = "panic"]
              [] arg.kind = "GlobalWorkOffsets" ->
                    [m0 EXCEPT !.input = @ \o Vec3Bytes(k.offsets, ptr)]
              [] arg.kind = "WorkGroupOffsets" ->
                    [m0 EXCEPT !.workgroup_id_offset_loc = Some(Len(m0.input)),
                               !.input = @ \o Zeros(3 * ptr)]
              [] arg.kind = "PrintfBuffer" ->
                    IF IsSome(m0.printf_buf) THEN add_global(m0, Unwrap(m0.printf_buf), 0, k.bits)
                    ELSE [m0 EXCEPT !.status = "panic"]
              [] arg.kind = "InlineSampler" -> [m0 EXCEPT !.samplers = Append(@, arg.sampler)]
              [] arg.kind = "FormatArray" ->
                    [m0 EXCEPT !.input = @ \o U16Bytes(m0.tex_formats) \o U16Bytes(m0.img_formats)]
              [] arg.kind = "OrderArray" ->
                    [m0 EXCEPT !.input = @ \o U16Bytes(m0.tex_orders) \o U16Bytes(m0.img_orders)]
              [] arg.kind = "WorkDim" -> [m0 EXCEPT !.input = @ \o LEBytes(k.work_dim, 1)]
              [] arg.kind = "NumWorkgroups" -> [m0 EXCEPT !.input = @ \o Vec3Bytes(k.grid, 4)]

RECURSIVE InternalArgLoop(_, _, _)
InternalArgLoop(m, k, n) ==
    IF n = 0 THEN m
    ELSE MarshalInternalArg(InternalArgLoop(m, k, n - 1), k.internal_args[n], k)

\* a call on the PipeContext: its name, a count or handle, and for launch_grid
\* the tile, its grid, the variable shared size and the workgroup offsets the
\* uploaded constant buffer holds at that moment
NoTile == <<>>

Call(op, n) == [op |-> op, n |-> n, tile |-> NoTile, grid |-> NoTile, wg |-> NoTile]

\* if nir_kernel_build.printf_info.is_some(): create the buffer (unwrap) and
\* seed it (1183-1195)
ClosurePrintf(created) ==
    /\ cpc = "printf"
    /\ IF ~kernel.printf
       THEN /\ cpc' = "internal_args"
            /\ UNCHANGED <<locals, calls>>
       ELSE IF created
       THEN /\ locals' = [locals EXCEPT !.printf_buf = Some(PrintfBufRes)]
            /\ calls' = Append(calls, Call("buffer_subdata", PrintfBufRes))
            /\ cpc' = "internal_args"
       ELSE /\ locals' = [locals EXCEPT !.status = "panic"]
            /\ cpc' = "panicked"
            /\ UNCHANGED calls
    /\ UNCHANGED <<kernel, ai, tile, cb0, cres>>

\* the internal-argument loop (1197-1254)
ClosureInternalArgs ==
    /\ cpc = "internal_args"
    /\ LET n == InternalArgLoop(locals, kernel, Len(kernel.internal_args))
       IN /\ locals' = n
          /\ cpc' = IF n.status = "panic" THEN "panicked" ELSE "bind"
    /\ UNCHANGED <<kernel, ai, tile, cb0, calls, cres>>

\* div_round_up(a, b)
DivRoundUp(a, b) == (a + b - 1) \div b

\* the trip counts of the three nested loops (1296-1298)
TileCounts(k) == [i \in 1..3 |-> DivRoundUp(k.grid[i], k.hw_max_grid[i])]

\* create the views and sampler states, bind everything (1256-1285); the
\* loops start at (0, 0, 0) unless one of them has no iteration
ClosureBind ==
    /\ cpc = "bind"
    /\ calls' = calls \o
          [i \in 1..Len(locals.sviews) |-> Call("create_sampler_view", i)] \o
          [i \in 1..Len(locals.samplers) |-> Call("create_sampler_state", i)] \o
          (IF kernel.cso = "Nir" THEN <<Call("create_compute_state", 1)>> ELSE <<>>) \o
          <<Call("bind_compute_state", 1),
            Call("bind_sampler_states", Len(locals.samplers)),
            Call("set_sampler_views", Len(locals.sviews)),
            Call("set_shader_images", Len(locals.iviews)),
            Call("set_global_binding", Len(locals.resource_info))>>
    /\ tile' = <<0, 0, 0>>
    /\ cpc' = IF \E i \in 1..3 : TileCounts(kernel)[i] = 0 THEN "cleanup" ELSE "tiles"
    /\ UNCHANGED <<kernel, locals, ai, cb0, cres>>

\* input[loc..loc + 3 * ptr].copy_from_slice(bytes)
CopyInto(input, loc, bytes) ==
    [i \in 1..Len(input) |->
        IF i > loc /\ i <= loc + Len(bytes) THEN bytes[i - loc] ELSE input[i]]

\* (variant: the offsets count tiles, not workgroups)
ThisOffsetsUnscaled(k, t) == <<t[1], t[2], t[3]>>

\* this_offsets = [x * hw_max_grid[0], y * hw_max_grid[1], z * hw_max_grid[2]]
ThisOffsets(k, t) == [i \in 1..3 |-> t[i] * k.hw_max_grid[i]]

\* (variant: every tile is given the hardware maximum)
ThisGridFull(k, t) == k.hw_max_grid

\* this_grid = [min(hw_max_grid[i], grid[i] - hw_max_grid[i] * x), ..]
ThisGrid(k, t) == [i \in 1..3 |-> Min(k.hw_max_grid[i], k.grid[i] - k.hw_max_grid[i] * t[i])]

\* (variant: the x loop runs one iteration short when grid is no multiple)
NextTileFloor(k, t) ==
    LET n == [i \in 1..3 |-> Max(1, k.grid[i] \div k.hw_max_grid[i])]
    IN IF t[1] + 1 < n[1] THEN Some(<<t[1] + 1, t[2], t[3]>>)
       ELSE IF t[2] + 1 < n[2] THEN Some(<<0, t[2] + 1, t[3]>>)
       ELSE IF t[3] + 1 < n[3] THEN Some(<<0, 0, t[3] + 1>>)
       ELSE None

\* the counters of the iteration after <<x, y, z>>: x is the innermost loop
NextTile(k, t) ==
    LET n == TileCounts(k)
    IN IF t[1] + 1 < n[1] THEN Some(<<t[1] + 1, t[2], t[3]>>)
       ELSE IF t[2] + 1 < n[2] THEN Some(<<0, t[2] + 1, t[3]>>)
       ELSE IF t[3] + 1 < n[3] THEN Some(<<0, 0, t[3] + 1>>)
       ELSE None

\* the words at the WorkGroupOffsets position of a buffer
ReadOffsets(buf, loc, ptr) ==
    [i \in 1..3 |-> LEValue(SubSeq(buf, loc + (i - 1) * ptr + 1, loc + i * ptr))]

\* leaving the closure drops temp_cso, if one was created (CSOWrapper::drop)
DropTemps(k) == IF k.cso = "Nir" THEN <<Call("delete_compute_state", 1)>> ELSE <<>>

\* one iteration of the innermost loop body (1299-1326): rewrite the
\* workgroup offsets, compute this_grid, update_cb0(&input)?, launch_grid
ClosureTile(uploaded) ==
    /\ cpc = "tiles"
    /\ LET ptr == PtrSize(kernel.bits)
           loc == locals.workgroup_id_offset_loc
           input == IF IsSome(loc)
                    THEN CopyInto(locals.input, Unwrap(loc), Vec3Bytes(ThisOffsets(kernel, tile), ptr))
                    ELSE locals.input
           next == NextTile(kernel, tile)
       IN /\ locals' = [locals EXCEPT !.input = input]
          /\ IF uploaded
             THEN /\ cb0' = input
                  /\ calls' = calls \o
                       <<Call("update_cb0", Len(input)),
                         [op |-> "launch_grid", n |-> locals.variable_local_size, tile |-> tile,
                          grid |-> ThisGrid(kernel, tile),
                          wg |-> IF IsSome(loc) THEN ReadOffsets(input, Unwrap(loc), ptr)
                                 ELSE NoTile]>>
                  /\ tile' = IF IsSome(next) THEN Unwrap(next) ELSE tile
                  /\ cpc' = IF IsSome(next) THEN "tiles" ELSE "cleanup"
                  /\ cres' = cres
             ELSE /\ cres' = Err(CL_OUT_OF_RESOURCES)
                  /\ cpc' = "returned"
                  /\ calls' = calls \o DropTemps(kernel)
                  /\ UNCHANGED <<cb0, tile>>
    /\ UNCHANGED <<kernel, ai>>

\* (variant: the sampler states and views are destroyed while still bound)
ClosureCleanupDestroyFirst ==
    /\ cpc = "cleanup"
    /\ calls' = calls \o
          [i \in 1..Len(locals.samplers) |-> Call("delete_sampler_state", i)] \o
          [i \in 1..Len(locals.sviews) |-> Call("sampler_view_destroy", i)] \o
          <<Call("clear_global_binding", Len(locals.resource_info)),
            Call("clear_shader_images", Len(locals.iviews)),
            Call("clear_sampler_views", Len(locals.sviews)),
            Call("clear_sampler_states", Len(locals.samplers)),
            Call("bind_compute_state", 0),
            Call("memory_barrier", 0)>>
    /\ cpc' = "readback"
    /\ UNCHANGED <<kernel, locals, ai, tile, cb0, cres>>

\* unbind and destroy (1330-1340)
ClosureCleanup ==
    /\ cpc = "cleanup"
    /\ calls' = calls \o
          <<Call("clear_global_binding", Len(locals.resource_info)),
            Call("clear_shader_images", Len(locals.iviews)),
            Call("clear_sampler_views", Len(locals.sviews)),
            Call("clear_sampler_states", Len(locals.samplers)),
            Call("bind_compute_state", 0),
            Call("memory_barrier", 0)>> \o
          [i \in 1..Len(locals.samplers) |-> Call("delete_sampler_state", i)] \o
          [i \in 1..Len(locals.sviews) |-> Call("sampler_view_destroy", i)]
    /\ cpc' = "readback"
    /\ UNCHANGED <<kernel, locals, ai, tile, cb0, cres>>

\* map the printf buffer and hand it to u_printf (1342-1355); Ok(())
ClosureReadback(mapped) ==
    /\ cpc = "readback"
    /\ IF IsSome(locals.printf_buf)
       THEN IF mapped
            THEN /\ calls' = Append(calls, Call("buffer_map", Unwrap(locals.printf_buf)))
                                \o DropTemps(kernel)
                 /\ cres' = Ok
            ELSE /\ cres' = Err(CL_OUT_OF_RESOURCES)
                 /\ calls' = calls \o DropTemps(kernel)
       ELSE /\ cres' = Ok
            /\ calls' = calls \o DropTemps(kernel)
    /\ cpc' = "returned"
    /\ UNCHANGED <<kernel, locals, ai, tile, cb0>>

ClosureNext ==
    \/ ClosureUserArg
    \/ ClosureUserArgsDone
    \/ \E created \in BOOLEAN : ClosurePrintf(created)
    \/ ClosureInternalArgs
    \/ ClosureBind
    \/ \E uploaded \in BOOLEAN : ClosureTile(uploaded)
    \/ ClosureCleanup
    \/ \E mapped \in BOOLEAN : ClosureReadback(mapped)

\* ---- the kernels and grids the whole closure is run on

\* largest grid dimension (in workgroups) drawn
MaxGrid == 3

\* largest hardware grid limit drawn
MaxHw == 2

InternalKinds ==
    {"ConstantBuffer", "GlobalWorkOffsets", "PrintfBuffer", "InlineSampler", "FormatArray",
     "OrderArray", "WorkDim", "WorkGroupOffsets", "NumWorkgroups"}

\* byte size of an internal argument as lowering declares it
InternalSize(kind, bits, nimg) ==
    CASE kind \in {"ConstantBuffer", "PrintfBuffer"} -> PtrSize(bits)
      [] kind \in {"GlobalWorkOffsets", "WorkGroupOffsets"} -> 3 * 8
      [] kind = "NumWorkgroups" -> 12
      [] kind = "WorkDim" -> 1
      [] kind \in {"FormatArray", "OrderArray"} -> 2 * nimg
      [] OTHER -> 0

\* an InternalKernelArg list laid out from byte offset base on, 8-aligned
RECURSIVE MkInternal(_, _, _, _)
MkInternal(kinds, base, bits, nimg) ==
    IF kinds = <<>> THEN <<>>
    ELSE LET size == InternalSize(kinds[1], bits, nimg)
             off == IF size = 0 THEN 0 ELSE align(base, 8)
         IN <<[kind |-> kinds[1], size |-> size, offset |-> off,
               sampler |-> IF kinds[1] = "InlineSampler" THEN <<4400, 4416, TRUE>> ELSE <<>>]>> \o
            MkInternal(Tail(kinds), IF size = 0 THEN base ELSE off + size, bits, nimg)

\* three kernels that between them have every kind of internal argument
DispatchProfiles ==
    {[kinds |-> <<"Constant", "MemGlobal">>,
      vals |-> <<Some(ValConstant(<<1, 2, 3, 4>>)), Some(ValBuffer(1, 256, TRUE))>>,
      internal |-> <<"GlobalWorkOffsets", "WorkGroupOffsets", "NumWorkgroups", "WorkDim">>,
      printf |-> FALSE, constant_buffer |-> FALSE, cso |-> "Cso", shared_size |-> 0],
     [kinds |-> <<"Texture", "Sampler", "MemLocal">>,
      vals |-> <<Some(ValImage(1, 17, 33, TRUE)), Some(ValSampler(1)), Some(ValLocalMem(24))>>,
      internal |-> <<"InlineSampler", "ConstantBuffer", "PrintfBuffer", "FormatArray", "OrderArray">>,
      printf |-> TRUE, constant_buffer |-> TRUE, cso |-> "Nir", shared_size |-> 4],
     [kinds |-> <<"RWImage", "MemConstant">>,
      vals |-> <<Some(ValImage(2, 18, 34, TRUE)), Some(ValNone)>>,
      internal |-> <<"WorkGroupOffsets">>,
      printf |-> FALSE, constant_buffer |-> FALSE, cso |-> "Nir", shared_size |-> 0]}

DispatchKernel(p, bits, grid, hw) ==
    LET n == Len(p.kinds)
    IN [args |-> MkArgs(p.kinds, [i \in 1..n |-> FALSE]), arg_values |-> p.vals,
        internal_args |-> MkInternal(p.internal, 8 * n, bits,
                                     Cardinality({i \in 1..n : TableOf(p.kinds[i]) # "none"})),
        shared_size |-> p.shared_size, printf |-> p.printf,
        constant_buffer |-> p.constant_buffer, cso |-> p.cso, bits |-> bits, work_dim |-> 3,
        offsets |-> <<0, 16, 32>>, grid |-> grid, hw_max_grid |-> hw]

-----------------------------------------------------------------------------
(* Specification of whole runs of the closure, over the kernels of          *)
(* DispatchProfiles, every grid up to MaxGrid and every limit up to MaxHw   *)

DispatchSpecInit ==
    /\ KernelInit
    /\ SerdeIdle
    /\ CacheIdle
    /\ LowerIdle
    /\ LocalSizeIdle
    /\ EncodeIdle
    /\ InstrIdle
    /\ \E p \in DispatchProfiles, bits \in AddressBits,
          grid \in [1..3 -> 0..MaxGrid], hw \in [1..3 -> 1..MaxHw] :
         ClosureEnter(DispatchKernel(p, bits, grid, hw))

DispatchSpecNext == ClosureNext /\ UNCHANGED <<kvars, svars, cvars, lvars, zvars, evars, ovars>>

SpecDispatch == DispatchSpecInit /\ [][DispatchSpecNext]_vars

\* ---- the tiling loop (C3, C4, C5)

\* the least q with q * b >= a
Ceil(a, b) == CHOOSE q \in 0..a : q * b >= a /\ (q = 0 \/ (q - 1) * b < a)

Launches == {i \in 1..Len(calls) : calls[i].op = "launch_grid"}

Uploads == {i \in 1..Len(calls) : calls[i].op = "update_cb0"}

ExpectedLaunches ==
    Ceil(kernel.grid[1], kernel.hw_max_grid[1]) * Ceil(kernel.grid[2], kernel.hw_max_grid[2])
        * Ceil(kernel.grid[3], kernel.hw_max_grid[3])

\* the closure went through the whole tiling loop: it is past it, and did not
\* leave it by a failed update_cb0 (which returns before anything is unbound)
TilingDone ==
    /\ cpc \in {"cleanup", "readback", "returned"}
    /\ cpc = "returned" => \E i \in 1..Len(calls) : calls[i].op = "clear_global_binding"

UploadFailed ==
    /\ cpc = "returned"
    /\ \A i \in 1..Len(calls) : calls[i].op # "clear_global_binding"

\* C3 as stated: a closure that has returned has issued exactly
\* ceil(grid[0]/hw_max[0]) * ceil(grid[1]/hw_max[1]) * ceil(grid[2]/hw_max[2])
\* launch_grid calls.
C3_Original == cpc = "returned" => Cardinality(Launches) = ExpectedLaunches

\* C3, amended: the closure never issues more than the product of the
\* ceilings, issues one launch_grid per successful update_cb0, and has issued
\* exactly the product once the tiling loop has run to its end; a closure that
\* a failing update_cb0 ended has issued fewer.
C3_LaunchCount ==
    /\ Cardinality(Launches) <= ExpectedLaunches
    /\ Cardinality(Launches) = Cardinality(Uploads)
    /\ TilingDone => Cardinality(Launches) = ExpectedLaunches
    /\ UploadFailed => Cardinality(Launches) < ExpectedLaunches

C3_Witness ==
    /\ cpc = "returned" /\ cres = Ok
    /\ kernel.grid = <<3, 3, 3>> /\ kernel.hw_max_grid = <<2, 2, 2>>
    /\ Cardinality(Launches) = 8

\* the workgroups of the requested grid, and those one launch_grid call covers
GridCells ==
    {<<x, y, z>> : x \in 0..(kernel.grid[1] - 1), y \in 0..(kernel.grid[2] - 1),
                   z \in 0..(kernel.grid[3] - 1)}

TileSpan(e, d) ==
    (e.tile[d] * kernel.hw_max_grid[d])..(e.tile[d] * kernel.hw_max_grid[d] + e.grid[d] - 1)

\* (boxes: two of them overlap iff their spans overlap in every dimension)
TileCells(e) == {<<x, y, z>> : x \in TileSpan(e, 1), y \in TileSpan(e, 2), z \in TileSpan(e, 3)}

Covered == UNION {TileCells(calls[i]) : i \in Launches}

TilesWellFormed ==
    /\ \A i \in Launches : \A d \in 1..3 :
          calls[i].grid[d] >= 1 /\ calls[i].grid[d] <= kernel.hw_max_grid[d]
    /\ \A i, j \in Launches :
          i < j => \E d \in 1..3 : TileSpan(calls[i], d) \cap TileSpan(calls[j], d) = {}

\* C4 as stated: the tiles a returned closure has dispatched partition the
\* grid: sizes between 1 and hw_max, no overlap, union exactly the grid.
C4_Original == cpc = "returned" => (TilesWellFormed /\ Covered = GridCells)

\* C4, amended: at every moment the dispatched tiles have sizes between 1 and
\* hw_max, do not overlap and lie inside the grid; their union is exactly the
\* grid once the tiling loop has run to its end, and a proper part of it when
\* a failing update_cb0 ended the closure.
C4_Partition ==
    /\ TilesWellFormed
    /\ Covered \subseteq GridCells
    /\ TilingDone => Covered = GridCells
    /\ UploadFailed => Covered # GridCells

C4_Witness ==
    /\ TilingDone
    /\ kernel.grid = <<3, 1, 3>> /\ kernel.hw_max_grid = <<2, 2, 1>>
    /\ Cardinality(Launches) = 6
    /\ \E i \in Launches : calls[i].grid = <<1, 1, 1>> /\ calls[i].tile = <<1, 0, 2>>

\* C5: with a WorkGroupOffsets argument, every launch_grid call of tile
\* (x, y, z) directly follows an update_cb0, and the buffer uploaded by it
\* holds (x * hw_max.x, y * hw_max.y, z * hw_max.z) at the argument's
\* position; the input buffer and the uploaded buffer hold the offsets of the
\* tile launched last; no two launches see the same offsets.
C5_WorkGroupOffsets ==
    IsSome(locals.workgroup_id_offset_loc) =>
        /\ \A i \in Launches :
              /\ i > 1 /\ calls[i - 1].op = "update_cb0"
              /\ calls[i].wg = [d \in 1..3 |-> calls[i].tile[d] * kernel.hw_max_grid[d]]
        /\ \A i, j \in Launches : i # j => calls[i].wg # calls[j].wg
        /\ (Launches # {} /\ ~UploadFailed) =>
              LET last == calls[CHOOSE i \in Launches : \A j \in Launches : j <= i]
                  loc == Unwrap(locals.workgroup_id_offset_loc)
              IN /\ cb0 = locals.input
                 /\ ReadOffsets(cb0, loc, PtrSize(kernel.bits)) = last.wg

C5_Witness ==
    /\ IsSome(locals.workgroup_id_offset_loc)
    /\ cpc = "cleanup"
    /\ \E i \in Launches : calls[i].tile = <<1, 1, 0>> /\ calls[i].wg = <<2, 1, 0>>
    /\ Unwrap(locals.workgroup_id_offset_loc) > 0

\* ---- release of the dispatch's transient objects (C17, C18)

\* positions in the call log of the calls named op
CallsOf(op) == {i \in 1..Len(calls) : calls[i].op = op}

\* the closure handed its result back to the caller
ClosureReturned == cpc = "returned"

\* every object made by `create` was handed to `destroy` exactly once
DestroyedOnce(create, destroy) ==
    \A i \in CallsOf(create) :
        Cardinality({j \in CallsOf(destroy) : calls[j].n = calls[i].n /\ j > i}) = 1

\* the binding made by the call `set` was cleared by a later call `clear`
ClearedAfter(set, clear) ==
    \A i \in CallsOf(set) : \E j \in CallsOf(clear) : j > i /\ calls[j].n = calls[i].n

\* the last bind_compute_state, if any, bound the null state
ComputeStateUnbound ==
    CallsOf("bind_compute_state") # {} =>
        calls[CHOOSE i \in CallsOf("bind_compute_state") :
                 \A j \in CallsOf("bind_compute_state") : j <= i].n = 0

\* C17: on every exit path of the dispatch closure, also when update_cb0
\* fails for a sub-dispatch or the printf buffer cannot be mapped, every
\* sampler state and sampler view created for the dispatch is destroyed
\* exactly once and the global, shader-image, sampler-view, sampler-state and
\* compute-state bindings are cleared.
C17_Original ==
    ClosureReturned =>
        /\ DestroyedOnce("create_sampler_state", "delete_sampler_state")
        /\ DestroyedOnce("create_sampler_view", "sampler_view_destroy")
        /\ ClearedAfter("set_global_binding", "clear_global_binding")
        /\ ClearedAfter("set_shader_images", "clear_shader_images")
        /\ ClearedAfter("set_sampler_views", "clear_sampler_views")
        /\ ClearedAfter("bind_sampler_states", "clear_sampler_states")
        /\ ComputeStateUnbound

\* the releases do happen on the paths that reach line 1330: a closure that
\* returns without a failed update_cb0 has released everything
ReleasedUnlessUploadFailed == UploadFailed \/ C17_Original

\* ---- order of the calls of a run without error (C27)

\* every call named a comes before every call named b
AllBefore(a, b) == \A i \in CallsOf(a), j \in CallsOf(b) : i < j

\* exactly one call named op, with count n
CalledOnceWith(op, n) == \E i \in CallsOf(op) : CallsOf(op) = {i} /\ calls[i].n = n

\* the calls that bind and that unbind the compute state
ComputeBinds == {i \in CallsOf("bind_compute_state") : calls[i].n # 0}

ComputeUnbinds == {i \in CallsOf("bind_compute_state") : calls[i].n = 0}

\* C27: in a run of the closure that completes without error, the compute
\* state, sampler states, sampler views, shader images and global bindings
\* are bound before the first launch_grid; the bindings are cleared with the
\* counts that were bound, and the compute state unbound, only after the last
\* launch_grid; sampler states and views are destroyed only after being
\* unbound; the printf buffer is read back exactly once, after all
\* sub-dispatches and the cleanup.
C27_CallOrder ==
    (ClosureReturned /\ cres = Ok) =>
        /\ Cardinality(ComputeBinds) = 1 /\ Cardinality(ComputeUnbinds) = 1
        /\ \A i \in ComputeBinds, j \in Launches \cup ComputeUnbinds : i < j
        /\ \A i \in Launches, j \in ComputeUnbinds : i < j
        /\ \A p \in {<<"bind_sampler_states", "clear_sampler_states", Len(locals.samplers)>>,
                      <<"set_sampler_views", "clear_sampler_views", Len(locals.sviews)>>,
                      <<"set_shader_images", "clear_shader_images", Len(locals.iviews)>>,
                      <<"set_global_binding", "clear_global_binding", Len(locals.resource_info)>>} :
              /\ CalledOnceWith(p[1], p[3])
              /\ CalledOnceWith(p[2], p[3])
              /\ AllBefore(p[1], "launch_grid")
              /\ AllBefore("launch_grid", p[2])
              /\ AllBefore(p[1], p[2])
        /\ AllBefore("clear_sampler_states", "delete_sampler_state")
        /\ AllBefore("clear_sampler_views", "sampler_view_destroy")
        /\ Cardinality(CallsOf("delete_sampler_state")) = Len(locals.samplers)
        /\ Cardinality(CallsOf("sampler_view_destroy")) = Len(locals.sviews)
        /\ IF IsSome(locals.printf_buf)
           THEN /\ Cardinality(CallsOf("buffer_map")) = 1
                /\ \A i \in 1..Len(calls) :
                      calls[i].op \notin {"buffer_map", "delete_compute_state"}
                          => \A j \in CallsOf("buffer_map") : i < j
           ELSE CallsOf("buffer_map") = {}

\* a finished run with printf, two sampler states, a sampler view and four
\* sub-dispatches
C27_Witness ==
    /\ ClosureReturned /\ cres = Ok
    /\ IsSome(locals.printf_buf)
    /\ Len(locals.samplers) = 2
    /\ Len(locals.sviews) = 1
    /\ Cardinality(Launches) = 4
    /\ CallsOf("buffer_map") = {Len(calls) - 1}

\* the closure ended at line 1189: the kernel uses printf, the user-argument
\* loop ran to its end and no printf buffer was made
PrintfCreateFailed ==
    /\ kernel.printf
    /\ cpc \in {"panicked", "returned"}
    /\ locals.printf_buf = None
    /\ UserArgLoop(MarshalInit(kernel.shared_size), kernel.args, kernel.arg_values,
                   kernel.bits, Len(kernel.args)).status = "ok"

\* C18: when the creation of the printf scratch buffer fails during
\* marshalling, the dispatch closure returns an out-of-resources error to the
\* caller instead of panicking.
C18_Original ==
    PrintfCreateFailed => ClosureReturned /\ cres = Err(CL_OUT_OF_RESOURCES)

-----------------------------------------------------------------------------
(* Specification of the user-argument loop of the closure alone, over every *)
(* kernel of MaxUserArgs arguments drawn from DrawnKinds                    *)

MarshalSpecInit ==
    /\ KernelInit
    /\ SerdeIdle
    /\ CacheIdle
    /\ LowerIdle
    /\ LocalSizeIdle
    /\ EncodeIdle
    /\ InstrIdle
    /\ \E kinds \in [1..MaxUserArgs -> DrawnKinds], deads \in [1..MaxUserArgs -> BOOLEAN],
          ss \in SharedSizes, bits \in AddressBits :
         \E vals \in ValSeqs(kinds, MaxUserArgs) :
            ClosureEnter([args |-> MkArgs(kinds, deads), arg_values |-> vals,
                          internal_args |-> <<>>, shared_size |-> ss, printf |-> FALSE,
                          constant_buffer |-> FALSE, cso |-> "Cso", bits |-> bits, work_dim |-> 3,
                          offsets |-> <<0, 0, 0>>, grid |-> NoGrid, hw_max_grid |-> NoGrid])

MarshalSpecNext == (ClosureUserArg \/ ClosureUserArgsDone) /\ UNCHANGED <<kvars, svars, cvars, lvars, zvars, evars, ovars>>

SpecMarshal == MarshalSpecInit /\ [][MarshalSpecNext]_vars

\* ---- properties of the user-argument loop

\* the argument list with the dead flag of argument j inverted
FlipDead(args, j) == [args EXCEPT ![j].dead = ~@]

\* number of bytes the loop appends to input for a bound value
ValueBytesLen(v, bits) ==
    CASE v.tag = "Constant" -> Len(v.bytes)
      [] v.tag \in {"Buffer", "LocalMem", "None"} -> PtrSize(bits)
      [] OTHER -> 0

\* the bytes of input at [off, off + n), or a marker if input is too short
SliceAt(input, off, n) ==
    IF off + n <= Len(input) THEN SubSeq(input, off + 1, off + n) ELSE <<"short">>

\* the whole user-argument loop run on another argument list
AltRun(args) ==
    UserArgLoop(MarshalInit(kernel.shared_size), args, kernel.arg_values, kernel.bits, Len(args))

\* what the finished loop left for live argument i, in the closure's locals m:
\* its bytes at its offset, or the table entries at its binding
LeftFor(m, i) ==
    LET arg == kernel.args[i]
        v == Unwrap(kernel.arg_values[i])
    IN CASE arg.kind \in ByteKinds -> SliceAt(m.input, arg.offset, ValueBytesLen(v, kernel.bits))
         [] TableOf(arg.kind) = "img" -> <<m.img_formats[arg.binding + 1], m.img_orders[arg.binding + 1]>>
         [] TableOf(arg.kind) = "tex" -> <<m.tex_formats[arg.binding + 1], m.tex_orders[arg.binding + 1]>>
         [] OTHER -> <<"sampler", v.sampler \in Range(m.samplers)>>

\* a dead argument leaves every local of the closure untouched
DeadArgWritesNothing ==
    [][(cpc = "user_args" /\ ai < Len(kernel.args) /\ kernel.args[ai + 1].dead)
          => locals' = locals]_vars

IsLocalMem(i) ==
    IsSome(kernel.arg_values[i]) /\ Unwrap(kernel.arg_values[i]).tag = "LocalMem"

\* live argument i is left the same bytes in the run with argument j flipped,
\* whenever that run completes too
SameWhenFlipped(i, j) ==
    LET alt == AltRun(FlipDead(kernel.args, j))
    IN alt.status = "ok" => LeftFor(alt, i) = LeftFor(locals, i)

\* C6 as stated: once the loop has completed, what it wrote for every live
\* argument is the same in the run where any other argument's dead flag is
\* inverted (bytes and position alike).
C6_Original ==
    cpc = "printf" =>
        \A i, j \in 1..Len(kernel.args) :
            (i # j /\ ~kernel.args[i].dead) => SameWhenFlipped(i, j)

\* C6 (amended): a dead argument writes no byte and records no resource, view
\* or sampler, whatever is bound to it; every live argument is written at the
\* same position whether any other argument is dead or live, with the same
\* bytes unless it is a local-memory argument that follows the other, also
\* local-memory, argument (its bytes are the running shared-memory cursor).
C6_DeadArgs ==
    /\ DeadArgWritesNothing
    /\ [](cpc = "printf" =>
            \A i, j \in 1..Len(kernel.args) :
                (i # j /\ ~kernel.args[i].dead) =>
                    IF IsLocalMem(i) /\ IsLocalMem(j) /\ j < i
                    THEN LET alt == AltRun(FlipDead(kernel.args, j))
                         IN alt.status = "ok" =>
                              Len(alt.input) >= kernel.args[i].offset + PtrSize(kernel.bits)
                    ELSE SameWhenFlipped(i, j))

\* C6 witness: the loop completed on a kernel with a dead argument that has
\* nothing bound and a live argument whose bytes are in the buffer
C6_Witness ==
    /\ cpc = "printf"
    /\ \E j \in 1..Len(kernel.args) : kernel.args[j].dead /\ kernel.arg_values[j] = None
    /\ \E i \in 1..Len(kernel.args) :
          /\ ~kernel.args[i].dead
          /\ kernel.args[i].kind = "Constant"
          /\ LeftFor(locals, i) = Unwrap(kernel.arg_values[i]).bytes

\* ---- local-memory arguments (C16)

\* the live arguments with a local-memory value
LocalMemArgs == {i \in 1..Len(kernel.args) : ~kernel.args[i].dead /\ IsLocalMem(i)}

\* the size of local-memory argument i and the offset written for it
LocalMemSize(i) == Unwrap(kernel.arg_values[i]).size

LocalMemOffset(i) == LEValue(LeftFor(locals, i))

LocalMemEnd(i) == LocalMemOffset(i) + LocalMemSize(i)

\* C16: the shared-memory ranges [offset, offset + size) written into the
\* input buffer for distinct local-memory arguments are pairwise disjoint and
\* lie above the static shared memory [0, shared_size); each offset is a
\* multiple of next_power_of_two(min(size, 128)); the variable shared size
\* left for launch_grid is the end of the last range minus shared_size.
C16_LocalMemRanges ==
    cpc = "printf" =>
        /\ \A i \in LocalMemArgs :
              /\ LocalMemOffset(i) >= kernel.shared_size
              /\ LocalMemOffset(i) % next_power_of_two(Min(LocalMemSize(i), 128)) = 0
        /\ \A i, j \in LocalMemArgs :
              i < j => LocalMemEnd(i) <= LocalMemOffset(j)
        /\ LocalMemArgs # {} =>
              LET last == CHOOSE i \in LocalMemArgs : \A j \in LocalMemArgs : j <= i
              IN locals.variable_local_size = LocalMemEnd(last) - kernel.shared_size
        /\ LocalMemArgs = {} => locals.variable_local_size = 0

\* two local-memory arguments above 4 bytes of static shared memory: 200
\* bytes at 128 (alignment capped at 128), then 24 bytes at 352
C16_Witness ==
    /\ cpc = "printf"
    /\ kernel.shared_size = 4
    /\ LocalMemArgs = {1, 2}
    /\ LocalMemSize(1) = 200 /\ LocalMemOffset(1) = 128
    /\ LocalMemSize(2) = 24 /\ LocalMemOffset(2) = 352
    /\ locals.variable_local_size = 372

-----------------------------------------------------------------------------
(* Specification of the marshalling half of the closure (user arguments,   *)
(* printf buffer, internal arguments), over kernels of two user arguments   *)
(* with and without internal arguments                                      *)

\* the positions of the user arguments of these kernels
InputArgIndices == {1, 2}

\* the internal argument lists lowering can have produced for a kernel with or
\* without image arguments
InputInternalLists(hasImages) ==
    {<<>>,
     <<"GlobalWorkOffsets", "WorkGroupOffsets", "NumWorkgroups", "WorkDim">>,
     IF hasImages
     THEN <<"InlineSampler", "ConstantBuffer", "PrintfBuffer", "FormatArray", "OrderArray">>
     ELSE <<"InlineSampler", "ConstantBuffer", "PrintfBuffer", "WorkDim">>}

InputSpecInit ==
    /\ KernelInit
    /\ SerdeIdle
    /\ CacheIdle
    /\ LowerIdle
    /\ LocalSizeIdle
    /\ EncodeIdle
    /\ InstrIdle
    /\ \E kinds \in [InputArgIndices -> DrawnKinds], deads \in [InputArgIndices -> BOOLEAN],
          bits \in AddressBits :
         LET nimg == Cardinality({i \in InputArgIndices : TableOf(kinds[i]) \in {"img", "tex"}})
         IN  \E vals \in ValSeqs(kinds, Cardinality(InputArgIndices)),
                il \in InputInternalLists(nimg > 0) :
                ClosureEnter([args |-> MkArgs(kinds, deads), arg_values |-> vals,
                              internal_args |-> MkInternal(il, 8 * Cardinality(InputArgIndices), bits, nimg),
                              shared_size |-> 4,
                              printf |-> \E j \in 1..Len(il) : il[j] = "PrintfBuffer",
                              constant_buffer |-> \E j \in 1..Len(il) : il[j] = "ConstantBuffer",
                              cso |-> "Cso", bits |-> bits, work_dim |-> 3,
                              offsets |-> <<0, 16, 32>>, grid |-> <<3, 2, 1>>,
                              hw_max_grid |-> NoGrid])

InputSpecNext ==
    /\ \/ ClosureUserArg
       \/ ClosureUserArgsDone
       \/ \E created \in BOOLEAN : ClosurePrintf(created)
       \/ ClosureInternalArgs
    /\ UNCHANGED <<kvars, svars, cvars, lvars, zvars, evars, ovars>>

SpecInput == InputSpecInit /\ [][InputSpecNext]_vars

\* ---- the layout of the input buffer (C25)

\* the live user arguments whose value is serialized into input
ByteArgs == {i \in 1..Len(kernel.args) : ~kernel.args[i].dead /\ kernel.args[i].kind \in ByteKinds}

\* the shared-memory cursor after the first i user arguments
RECURSIVE CursorAfter(_)
CursorAfter(i) ==
    IF i = 0 THEN kernel.shared_size
    ELSE IF i \in LocalMemArgs
         THEN align(CursorAfter(i - 1), next_power_of_two(Min(LocalMemSize(i), 128))) + LocalMemSize(i)
         ELSE CursorAfter(i - 1)

\* the bytes user argument i serializes to
UserBytes(i) ==
    LET v == Unwrap(kernel.arg_values[i])
        ptr == PtrSize(kernel.bits)
    IN  CASE v.tag = "Constant" -> v.bytes
          [] v.tag = "Buffer" -> LEBytes(v.offset, ptr)
          [] v.tag = "LocalMem" -> LEBytes(CursorAfter(i) - v.size, ptr)
          [] OTHER -> Zeros(ptr)

\* the end of the bytes of the user arguments
UserEnd ==
    LET ends == {kernel.args[i].offset + Len(UserBytes(i)) : i \in ByteArgs}
    IN  IF ends = {} THEN 0 ELSE CHOOSE e \in ends : \A f \in ends : f <= e

\* the bytes internal argument j serializes to (none for an inline sampler)
InternalBytes(j) ==
    LET arg == kernel.internal_args[j]
        ptr == PtrSize(kernel.bits)
    IN  CASE arg.kind \in {"ConstantBuffer", "PrintfBuffer"} -> Zeros(ptr)
          [] arg.kind = "GlobalWorkOffsets" -> Vec3Bytes(kernel.offsets, ptr)
          [] arg.kind = "WorkGroupOffsets" -> Zeros(3 * ptr)
          [] arg.kind = "FormatArray" -> U16Bytes(locals.tex_formats) \o U16Bytes(locals.img_formats)
          [] arg.kind = "OrderArray" -> U16Bytes(locals.tex_orders) \o U16Bytes(locals.img_orders)
          [] arg.kind = "WorkDim" -> <<kernel.work_dim>>
          [] arg.kind = "NumWorkgroups" -> Vec3Bytes(kernel.grid, 4)
          [] OTHER -> <<>>

\* C25: in the input buffer the closure built, the bytes of every live
\* Constant, MemGlobal, MemConstant and MemLocal user argument start at byte
\* index arg.offset and are intact, and the bytes of every internal argument
\* that has byte content start at that argument's offset, after all
\* user-argument bytes.
C25_InputLayout ==
    cpc = "bind" =>
        /\ \A i \in ByteArgs :
              SliceAt(locals.input, kernel.args[i].offset, Len(UserBytes(i))) = UserBytes(i)
        /\ \A j \in 1..Len(kernel.internal_args) :
              InternalBytes(j) # <<>> =>
                  /\ kernel.internal_args[j].offset >= UserEnd
                  /\ SliceAt(locals.input, kernel.internal_args[j].offset, Len(InternalBytes(j)))
                        = InternalBytes(j)

\* a dead first argument, a live 4-byte constant at offset 8 of a 64-bit
\* device's buffer and the four grid arguments behind it
C25_Witness ==
    /\ cpc = "bind"
    /\ kernel.bits = 64
    /\ kernel.args[1].dead
    /\ ByteArgs = {2}
    /\ kernel.args[2].kind = "Constant"
    /\ Len(kernel.internal_args) = 4
    /\ kernel.internal_args[4].offset = 80
    /\ Len(locals.input) = 81
    /\ SubSeq(locals.input, 1, 16) = <<0, 0, 0, 0, 0, 0, 0, 0, 33, 34, 35, 36, 0, 0, 0, 0>>
    /\ locals.input[81] = 3

-----------------------------------------------------------------------------
(* Part 3: the cache entry of a lowered kernel (kernel.rs:165-283, 866-900) *)

\* ---- the blob writer and reader: sequential, naturally aligned fields

\* zero padding up to a multiple of n bytes
blob_align(b, n) == b \o Zeros(align(Len(b), n) - Len(b))

blob_write_uint8(b, v) == Append(b, v % 256)

blob_write_uint16(b, v) == blob_align(b, 2) \o LEBytes(v, 2)

blob_write_uint32(b, v) == blob_align(b, 4) \o LEBytes(v, 4)

\* blob_reader_init: a reader is the offset of the next byte and the overrun flag
ReaderInit == [pos |-> 0, overrun |-> FALSE]

\* a read of size bytes: align, then the value and the advanced reader, or 0
\* and the overrun flag when the data ends before (or the reader had overrun)
blob_read(data, r, size) ==
    LET p == align(r.pos, size)
    IN IF r.overrun \/ p + size > Len(data)
       THEN [v |-> 0, r |-> [pos |-> p, overrun |-> TRUE]]
       ELSE [v |-> LEValue(SubSeq(data, p + 1, p + size)),
             r |-> [pos |-> p + size, overrun |-> FALSE]]

blob_read_uint8(data, r) == blob_read(data, r, 1)

blob_read_uint16(data, r) == blob_read(data, r, 2)

blob_read_uint32(data, r) == blob_read(data, r, 4)

\* ---- the conversions of the serializers

\* `as u16`
AsU16(v) == v % 65536

\* `bool.into()` for u8
BoolToU8(b) == IF b THEN 1 ELSE 0

\* (variant: Texture and Sampler written with each other's tag)
KernelArgTypeTagSwapped(kind) ==
    CASE kind = "Constant" -> 0 [] kind = "Image" -> 1 [] kind = "RWImage" -> 2
      [] kind = "Sampler" -> 4 [] kind = "Texture" -> 3 [] kind = "MemGlobal" -> 5
      [] kind = "MemConstant" -> 6 [] kind = "MemLocal" -> 7

\* `arg.kind as u8`: the discriminants of enum KernelArgType
KernelArgTypeTag(kind) ==
    CASE kind = "Constant" -> 0 [] kind = "Image" -> 1 [] kind = "RWImage" -> 2
      [] kind = "Sampler" -> 3 [] kind = "Texture" -> 4 [] kind = "MemGlobal" -> 5
      [] kind = "MemConstant" -> 6 [] kind = "MemLocal" -> 7

\* the match of KernelArg::deserialize; "" stands for `_ => return None`
KernelArgTypeOfTag(t) ==
    CASE t = 0 -> "Constant" [] t = 1 -> "Image" [] t = 2 -> "RWImage" [] t = 3 -> "Sampler"
      [] t = 4 -> "Texture" [] t = 5 -> "MemGlobal" [] t = 6 -> "MemConstant"
      [] t = 7 -> "MemLocal" [] OTHER -> ""

\* the tags InternalKernelArg::serialize writes
InternalKernelArgTypeTag(kind) ==
    CASE kind = "ConstantBuffer" -> 0 [] kind = "GlobalWorkOffsets" -> 1
      [] kind = "PrintfBuffer" -> 2 [] kind = "InlineSampler" -> 3 [] kind = "FormatArray" -> 4
      [] kind = "OrderArray" -> 5 [] kind = "WorkDim" -> 6 [] kind = "WorkGroupOffsets" -> 7
      [] kind = "NumWorkgroups" -> 8

\* (variant: an unknown tag is taken for the first kind)
InternalKernelArgTypeOfTagLenient(t) ==
    CASE t = 1 -> "GlobalWorkOffsets" [] t = 2 -> "PrintfBuffer"
      [] t = 3 -> "InlineSampler" [] t = 4 -> "FormatArray" [] t = 5 -> "OrderArray"
      [] t = 6 -> "WorkDim" [] t = 7 -> "WorkGroupOffsets" [] t = 8 -> "NumWorkgroups"
      [] OTHER -> "ConstantBuffer"

\* the match of InternalKernelArg::deserialize; "" stands for `_ => return None`
InternalKernelArgTypeOfTag(t) ==
    CASE t = 0 -> "ConstantBuffer" [] t = 1 -> "GlobalWorkOffsets" [] t = 2 -> "PrintfBuffer"
      [] t = 3 -> "InlineSampler" [] t = 4 -> "FormatArray" [] t = 5 -> "OrderArray"
      [] t = 6 -> "WorkDim" [] t = 7 -> "WorkGroupOffsets" [] t = 8 -> "NumWorkgroups"
      [] OTHER -> ""

\* ---- the serializers

\* the argument descriptor of a user argument: an opaque payload, here its
\* address qualifier (private, constant, local, global) in one byte
SPIRVKernelArgSerialize(b, spirv) == blob_write_uint8(b, spirv)

\* what the loop body of KernelArg::serialize writes up to the dead flag
KernelArgSerializeHead(b, arg) ==
    LET b1 == SPIRVKernelArgSerialize(b, arg.spirv)
        b2 == blob_write_uint16(b1, AsU16(arg.size))
        b3 == blob_write_uint16(b2, AsU16(arg.offset))
        b4 == blob_write_uint16(b3, AsU16(arg.binding))
    IN blob_write_uint8(b4, BoolToU8(arg.dead))

\* one iteration of the loop of KernelArg::serialize (169-176)
KernelArgSerializeOne(b, arg) ==
    blob_write_uint8(KernelArgSerializeHead(b, arg), KernelArgTypeTag(arg.kind))

\* the first n iterations
RECURSIVE KernelArgSerializeLoop(_, _, _)
KernelArgSerializeLoop(b, args, n) ==
    IF n = 0 THEN b ELSE KernelArgSerializeOne(KernelArgSerializeLoop(b, args, n - 1), args[n])

\* KernelArg::serialize (165-178)
KernelArgSerialize(b, args) ==
    KernelArgSerializeLoop(blob_write_uint16(b, AsU16(Len(args))), args, Len(args))

\* what the loop body of InternalKernelArg::serialize writes before the tag
InternalKernelArgSerializeHead(b, arg) ==
    blob_write_uint16(blob_write_uint16(b, AsU16(arg.size)), AsU16(arg.offset))

\* one iteration of the loop of InternalKernelArg::serialize (223-242)
InternalKernelArgSerializeOne(b, arg) ==
    LET b1 == blob_write_uint8(InternalKernelArgSerializeHead(b, arg),
                               InternalKernelArgTypeTag(arg.kind))
    IN IF arg.kind = "InlineSampler"
       THEN blob_write_uint32(
                blob_write_uint32(blob_write_uint8(b1, BoolToU8(arg.sampler[3])), arg.sampler[1]),
                arg.sampler[2])
       ELSE b1

RECURSIVE InternalKernelArgSerializeLoop(_, _, _)
InternalKernelArgSerializeLoop(b, args, n) ==
    IF n = 0 THEN b
    ELSE InternalKernelArgSerializeOne(InternalKernelArgSerializeLoop(b, args, n - 1), args[n])

\* InternalKernelArg::serialize (220-244)
InternalKernelArgSerialize(b, args) ==
    InternalKernelArgSerializeLoop(blob_write_uint16(b, AsU16(Len(args))), args, Len(args))

\* NirShader::serialize: the shader is an opaque payload, here one byte
NirSerialize(b, nir) == blob_write_uint8(b, nir)

\* SPIRVToNirResult::serialize (891-900)
SPIRVToNirResultSerialize(b, nir, args, internal_args) ==
    InternalKernelArgSerialize(KernelArgSerialize(NirSerialize(b, nir), args), internal_args)

\* ---- the deserializers

\* the argument descriptor read back; an unknown address qualifier gives None
SPIRVKernelArgDeserialize(data, r) ==
    LET q == blob_read_uint8(data, r)
    IN [res |-> IF q.v > 3 THEN None ELSE Some(q.v), r |-> q.r]

\* the loop of KernelArg::deserialize (185-212), n iterations to go
RECURSIVE KernelArgDeserializeLoop(_, _, _, _)
KernelArgDeserializeLoop(data, r, n, acc) ==
    IF n = 0 THEN [res |-> Some(acc), r |-> r]
    ELSE LET spirv == SPIRVKernelArgDeserialize(data, r)
             size == blob_read_uint16(data, spirv.r)
             offset == blob_read_uint16(data, size.r)
             binding == blob_read_uint16(data, offset.r)
             dead == blob_read_uint8(data, binding.r)
             tag == blob_read_uint8(data, dead.r)
             kind == KernelArgTypeOfTag(tag.v)
         IN IF ~IsSome(spirv.res) THEN [res |-> None, r |-> spirv.r]
            ELSE IF kind = "" THEN [res |-> None, r |-> tag.r]
            ELSE KernelArgDeserializeLoop(data, tag.r, n - 1,
                     Append(acc, [spirv |-> Unwrap(spirv.res), kind |-> kind, size |-> size.v,
                                  offset |-> offset.v, binding |-> binding.v,
                                  dead |-> dead.v # 0]))

\* KernelArg::deserialize (180-216)
KernelArgDeserialize(data, r) ==
    LET len == blob_read_uint16(data, r)
    IN KernelArgDeserializeLoop(data, len.r, len.v, <<>>)

\* the loop of InternalKernelArg::deserialize (251-278), n iterations to go
RECURSIVE InternalKernelArgDeserializeLoop(_, _, _, _)
InternalKernelArgDeserializeLoop(data, r, n, acc) ==
    IF n = 0 THEN [res |-> Some(acc), r |-> r]
    ELSE LET size == blob_read_uint16(data, r)
             offset == blob_read_uint16(data, size.r)
             tag == blob_read_uint8(data, offset.r)
             kind == InternalKernelArgTypeOfTag(tag.v)
             norm == blob_read_uint8(data, tag.r)
             addr_mode == blob_read_uint32(data, norm.r)
             filter_mode == blob_read_uint32(data, addr_mode.r)
         IN IF kind = "" THEN [res |-> None, r |-> tag.r]
            ELSE InternalKernelArgDeserializeLoop(data,
                     IF kind = "InlineSampler" THEN filter_mode.r ELSE tag.r, n - 1,
                     Append(acc, [kind |-> kind, size |-> size.v, offset |-> offset.v,
                                  sampler |-> IF kind = "InlineSampler"
                                              THEN <<addr_mode.v, filter_mode.v, norm.v # 0>>
                                              ELSE <<>>]))

\* InternalKernelArg::deserialize (246-283)
InternalKernelArgDeserialize(data, r) ==
    LET len == blob_read_uint16(data, r)
    IN InternalKernelArgDeserializeLoop(data, len.r, len.v, <<>>)

\* NirShader::deserialize: the opaque payload read back; a payload that is
\* not a shader (here the byte 0) gives None
NirDeserialize(data, r) ==
    LET nir == blob_read_uint8(data, r)
    IN [res |-> IF nir.v = 0 THEN None ELSE Some(nir.v), r |-> nir.r]

\* SPIRVToNirResult::deserialize (866-887), with what its callees returned
\* and the stage whose `?` returned None ("done" if none did)
SPIRVToNirResultDeserialize(data) ==
    LET nir == NirDeserialize(data, ReaderInit)
        args == KernelArgDeserialize(data, nir.r)
        internal_args == InternalKernelArgDeserialize(data, args.r)
    IN IF ~IsSome(nir.res)
       THEN [stage |-> "nir", args |-> None, internal_args |-> None, result |-> None]
       ELSE IF ~IsSome(args.res)
       THEN [stage |-> "args", args |-> None, internal_args |-> None, result |-> None]
       ELSE IF ~IsSome(internal_args.res)
       THEN [stage |-> "internal_args", args |-> args.res, internal_args |-> None,
             result |-> None]
       ELSE [stage |-> "done", args |-> args.res, internal_args |-> internal_args.res,
             result |-> Some([nir |-> Unwrap(nir.res), args |-> Unwrap(args.res),
                              internal_args |-> Unwrap(internal_args.res)])]

\* ---- the entries written and read back

\* most entries of the two lists together
MaxEntries == 2

UserKindSeq ==
    <<"Constant", "Image", "RWImage", "Sampler", "Texture", "MemGlobal", "MemConstant",
      "MemLocal">>

\* user arguments: every kind, fields at both ends of 16 bits, and three
\* whose size, offset or binding needs more than 16 bits
UserArgChoices ==
    {[spirv |-> IF i % 2 = 1 THEN 0 ELSE 3, kind |-> UserKindSeq[i],
      size |-> IF i % 2 = 1 THEN 4 ELSE 65535, offset |-> IF i % 2 = 1 THEN 0 ELSE 65535,
      binding |-> IF i % 2 = 1 THEN 0 ELSE 65535, dead |-> i % 2 = 0] : i \in 1..8}
    \cup {[spirv |-> 1, kind |-> "Constant", size |-> 65536, offset |-> 0, binding |-> 0,
           dead |-> FALSE],
          [spirv |-> 2, kind |-> "MemGlobal", size |-> 8, offset |-> 65540, binding |-> 0,
           dead |-> FALSE],
          [spirv |-> 2, kind |-> "Image", size |-> 8, offset |-> 8, binding |-> 65537,
           dead |-> FALSE]}

InternalKindSeq ==
    <<"ConstantBuffer", "GlobalWorkOffsets", "PrintfBuffer", "InlineSampler", "FormatArray",
      "OrderArray", "WorkDim", "WorkGroupOffsets", "NumWorkgroups">>

\* internal arguments: every kind, two inline samplers, and two whose size or
\* offset needs more than 16 bits
InternalArgChoices ==
    {[kind |-> InternalKindSeq[i], size |-> IF i % 2 = 1 THEN 8 ELSE 65535,
      offset |-> IF i % 2 = 1 THEN 65535 ELSE 16,
      sampler |-> IF InternalKindSeq[i] = "InlineSampler" THEN <<4400, 4416, TRUE>> ELSE <<>>] :
        i \in 1..9}
    \cup {[kind |-> "InlineSampler", size |-> 0, offset |-> 0, sampler |-> <<4403, 4417, FALSE>>],
          [kind |-> "WorkDim", size |-> 65536, offset |-> 24, sampler |-> <<>>],
          [kind |-> "NumWorkgroups", size |-> 12, offset |-> 65544, sampler |-> <<>>]}

RECURSIVE SeqsOf(_, _)
SeqsOf(S, n) == IF n = 0 THEN {<<>>} ELSE {Append(q, e) : q \in SeqsOf(S, n - 1), e \in S}

\* the shaders: opaque, told apart by one byte
NirChoices == {1, 2}

\* tags no kind of user argument has, and tags no kind of internal argument has
BadUserTags == {8, 200}

BadInternalTags == {9, 200}

\* where the pieces of an entry lie in its blob
NirEnd(x) == Len(NirSerialize(<<>>, x.nir))

ArgsCountBlob(x) == blob_write_uint16(NirSerialize(<<>>, x.nir), AsU16(Len(x.args)))

UserKindPos(x, i) ==
    Len(KernelArgSerializeHead(KernelArgSerializeLoop(ArgsCountBlob(x), x.args, i - 1),
                               x.args[i])) + 1

ArgsBlob(x) == KernelArgSerialize(NirSerialize(<<>>, x.nir), x.args)

InternalCountBlob(x) == blob_write_uint16(ArgsBlob(x), AsU16(Len(x.internal_args)))

InternalKindPos(x, i) ==
    Len(InternalKernelArgSerializeHead(
            InternalKernelArgSerializeLoop(InternalCountBlob(x), x.internal_args, i - 1),
            x.internal_args[i])) + 1

\* blob_init, SPIRVToNirResult::serialize (922-926)
SerializeEntry ==
    /\ spc = "start"
    /\ blob' = SPIRVToNirResultSerialize(<<>>, sin.nir, sin.args, sin.internal_args)
    /\ spc' = "written"
    /\ UNCHANGED <<sin, tamper, sout>>

\* the entry comes back from the cache as it was put
StoreIntact ==
    /\ spc = "written"
    /\ spc' = "stored"
    /\ UNCHANGED <<sin, blob, tamper, sout>>

\* the entry comes back cut short, somewhere after the shader
StoreTruncated(n) ==
    /\ spc = "written"
    /\ n >= NirEnd(sin) /\ n < Len(blob)
    /\ blob' = SubSeq(blob, 1, n)
    /\ tamper' = [what |-> "truncated", at |-> n]
    /\ spc' = "stored"
    /\ UNCHANGED <<sin, sout>>

\* the entry comes back with the kind tag of user argument i changed to t
StoreCorruptUserKind(i, t) ==
    /\ spc = "written"
    /\ i \in 1..Len(sin.args)
    /\ blob' = [blob EXCEPT ![UserKindPos(sin, i)] = t]
    /\ tamper' = [what |-> "user_kind", at |-> i]
    /\ spc' = "stored"
    /\ UNCHANGED <<sin, sout>>

\* the entry comes back with the kind tag of internal argument i changed to t
StoreCorruptInternalKind(i, t) ==
    /\ spc = "written"
    /\ i \in 1..Len(sin.internal_args)
    /\ blob' = [blob EXCEPT ![InternalKindPos(sin, i)] = t]
    /\ tamper' = [what |-> "internal_kind", at |-> i]
    /\ spc' = "stored"
    /\ UNCHANGED <<sin, sout>>

\* blob_reader_init, SPIRVToNirResult::deserialize (866-887)
DeserializeEntry ==
    /\ spc = "stored"
    /\ sout' = SPIRVToNirResultDeserialize(blob)
    /\ spc' = "read"
    /\ UNCHANGED <<sin, blob, tamper>>

BlobSpecInit ==
    /\ KernelInit
    /\ DispatchIdle
    /\ CacheIdle
    /\ LowerIdle
    /\ LocalSizeIdle
    /\ EncodeIdle
    /\ InstrIdle
    /\ \E na, ni \in 0..MaxEntries :
         /\ na + ni <= MaxEntries
         /\ \E nir \in NirChoices, args \in SeqsOf(UserArgChoices, na),
               internal_args \in SeqsOf(InternalArgChoices, ni) :
              sin = [nir |-> nir, args |-> args, internal_args |-> internal_args]
    /\ blob = <<>>
    /\ tamper = [what |-> "none", at |-> 0]
    /\ spc = "start"
    /\ sout = <<>>

BlobSpecNext ==
    /\ \/ SerializeEntry
       \/ StoreIntact
       \/ \E n \in 0..(16 * MaxEntries + 6) : StoreTruncated(n)
       \/ \E i \in 1..MaxEntries, t \in BadUserTags : StoreCorruptUserKind(i, t)
       \/ \E i \in 1..MaxEntries, t \in BadInternalTags : StoreCorruptInternalKind(i, t)
       \/ DeserializeEntry
    /\ UNCHANGED <<kvars, dvars, cvars, lvars, zvars, evars, ovars>>

SpecBlob == BlobSpecInit /\ [][BlobSpecNext]_vars

\* ---- properties of the cache entry (C7, C8, C9)

FitsU16(v) == v < 65536

EntryFits(x) ==
    /\ \A i \in 1..Len(x.args) :
          FitsU16(x.args[i].size) /\ FitsU16(x.args[i].offset) /\ FitsU16(x.args[i].binding)
    /\ \A i \in 1..Len(x.internal_args) :
          FitsU16(x.internal_args[i].size) /\ FitsU16(x.internal_args[i].offset)

\* the entry with every size, offset and binding reduced modulo 2^16
EntryModulo(x) ==
    [nir |-> x.nir,
     args |-> [i \in 1..Len(x.args) |->
                 [x.args[i] EXCEPT !.size = @ % 65536, !.offset = @ % 65536,
                                   !.binding = @ % 65536]],
     internal_args |-> [i \in 1..Len(x.internal_args) |->
                 [x.internal_args[i] EXCEPT !.size = @ % 65536, !.offset = @ % 65536]]]

ReadBack(x) ==
    /\ sout.stage = "done"
    /\ sout.args = Some(x.args)
    /\ sout.internal_args = Some(x.internal_args)
    /\ sout.result = Some(x)

\* C7 as stated: every list that was serialized and read back unchanged
\* deserializes to Some of itself, field for field.
C7_Original == (spc = "read" /\ tamper.what = "none") => ReadBack(sin)

\* C7, amended: a serialized list deserializes to Some of a list of the same
\* length whose entries have the same kind, dead flag and inline-sampler
\* fields, and the same size, offset and binding modulo 2^16; so it is the
\* list itself, field for field, when all of these fit 16 bits.
C7_RoundTrip ==
    (spc = "read" /\ tamper.what = "none") =>
        /\ ReadBack(EntryModulo(sin))
        /\ EntryFits(sin) => ReadBack(sin)

C7_Witness ==
    /\ spc = "read" /\ tamper.what = "none"
    /\ EntryFits(sin)
    /\ Len(sin.args) = 1 /\ sin.args[1].kind = "MemLocal" /\ sin.args[1].dead
    /\ Len(sin.internal_args) = 1 /\ sin.internal_args[1].sampler = <<4403, 4417, FALSE>>
    /\ ReadBack(sin)

\* C8: an entry in which a user argument carries a kind tag above 7 makes
\* KernelArg::deserialize, and so SPIRVToNirResult::deserialize, return None;
\* one in which an internal argument carries a kind tag above 8 makes
\* InternalKernelArg::deserialize, and so SPIRVToNirResult::deserialize,
\* return None.
C8_UnknownKind ==
    spc = "read" =>
        /\ tamper.what = "user_kind" =>
              sout.stage = "args" /\ sout.args = None /\ sout.result = None
        /\ tamper.what = "internal_kind" =>
              /\ sout.stage = "internal_args" /\ sout.internal_args = None
              /\ sout.result = None
              /\ sout.args = Some(EntryModulo(sin).args)

C8_Witness ==
    /\ spc = "read"
    /\ tamper = [what |-> "internal_kind", at |-> 2]
    /\ blob[InternalKindPos(sin, 2)] = 9
    /\ sin.internal_args[1].kind = "InlineSampler"
    /\ sout.result = None

\* the entry was cut after the count of a list and before the end of the
\* entries the count announces
CutInArgs ==
    /\ tamper.what = "truncated" /\ Len(sin.args) > 0
    /\ tamper.at >= Len(ArgsCountBlob(sin)) /\ tamper.at < Len(ArgsBlob(sin))

CutInInternalArgs ==
    /\ tamper.what = "truncated" /\ Len(sin.internal_args) > 0
    /\ tamper.at >= Len(InternalCountBlob(sin))

\* C9 as stated: deserializing a blob that ends before all the entries its
\* count announces returns None.
C9_Original ==
    spc = "read" =>
        /\ CutInArgs => sout.args = None /\ sout.result = None
        /\ CutInInternalArgs => sout.internal_args = None /\ sout.result = None

-----------------------------------------------------------------------------
(* Part 4: convert_spirv_to_nir and the shader cache (kernel.rs:903-934)    *)

\* the kernel names, and so the keys, of a program
Names == {1, 2}

\* build.hash_key(dev, name): a key (an opaque hash of the name and the
\* program) when the device has a cache, none when it has not
hash_key(c, name) == IF IsSome(c) THEN Some(name) ELSE None

\* cache.get(key) and cache.put(bin, key) of the disk cache
DiskCacheGet(store, k) == store[k]

DiskCachePut(store, bin, k) == [store EXCEPT ![k] = Some(bin)]

\* (variant: whatever the cache returned is used)
CacheHitAlways(d) == TRUE

\* .and_then(deserialize).unwrap_or_else(..): the entry is used iff it
\* deserialized to Some
CacheHit(d) == IsSome(d.result)

\* the entry another build left under the other name
OtherEntry == <<2, 0, 0, 0, 0, 0>>

\* lines 909-916: the cache, the key, the lookup and the deserialization
ConvertLookup ==
    /\ xpc = "start"
    /\ LET key == hash_key(cache, cname)
           got == IF IsSome(cache) /\ IsSome(key)
                  THEN DiskCacheGet(Unwrap(cache), Unwrap(key)) ELSE None
           d == IF IsSome(got) THEN SPIRVToNirResultDeserialize(Unwrap(got))
                ELSE [stage |-> "none", args |-> None, internal_args |-> None, result |-> None]
       IN /\ ckey' = key
          /\ entry' = got
          /\ sout' = d
          /\ IF CacheHit(d)
             THEN xres' = [from |-> "cache", value |-> d.result] /\ xpc' = "done"
             ELSE xres' = xres /\ xpc' = "lower"
    /\ UNCHANGED <<cache, cname, sin, blob, tamper, spc>>

\* lines 917-933: lower from source, put the blob when there is a cache
\* (key.unwrap()), return the result
ConvertLower ==
    /\ xpc = "lower"
    /\ IF IsSome(cache)
       THEN LET bin == SPIRVToNirResultSerialize(<<>>, sin.nir, sin.args, sin.internal_args)
            IN IF IsSome(ckey)
               THEN /\ blob' = bin
                    /\ cache' = Some(DiskCachePut(Unwrap(cache), bin, Unwrap(ckey)))
                    /\ xres' = [from |-> "source", value |-> Some(sin)]
                    /\ xpc' = "done"
               ELSE /\ blob' = bin
                    /\ xpc' = "panicked"
                    /\ UNCHANGED <<cache, xres>>
       ELSE /\ xres' = [from |-> "source", value |-> Some(sin)]
            /\ xpc' = "done"
            /\ UNCHANGED <<cache, blob>>
    /\ UNCHANGED <<cname, ckey, entry, sin, tamper, spc, sout>>

\* what the cache may hold under the key of kernel x: nothing, its blob, the
\* blob with a kind tag overwritten, the blob cut short, no bytes at all, or
\* the blob of another kernel
CachedChoices(x) ==
    LET good == SPIRVToNirResultSerialize(<<>>, x.nir, x.args, x.internal_args)
    IN {None, Some(good), Some(<<>>), Some(OtherEntry)}
       \cup {Some(SubSeq(good, 1, n)) : n \in {NirEnd(x), Len(good) - 1}}
       \cup {Some([good EXCEPT ![UserKindPos(x, i)] = 200]) : i \in 1..Len(x.args)}
       \cup {Some([good EXCEPT ![InternalKindPos(x, i)] = 9]) : i \in 1..Len(x.internal_args)}

CacheSpecInit ==
    /\ KernelInit
    /\ DispatchIdle
    /\ LowerIdle
    /\ LocalSizeIdle
    /\ EncodeIdle
    /\ InstrIdle
    /\ \E na, ni \in 0..MaxEntries :
         /\ na + ni <= MaxEntries
         /\ \E nir \in NirChoices, args \in SeqsOf(UserArgChoices, na),
               internal_args \in SeqsOf(InternalArgChoices, ni) :
              sin = [nir |-> nir, args |-> args, internal_args |-> internal_args]
    /\ cname \in Names
    /\ \/ cache = None
       \/ \E c \in CachedChoices(sin) :
            cache = Some([k \in Names |-> IF k = cname THEN c ELSE Some(OtherEntry)])
    /\ blob = <<>>
    /\ tamper = [what |-> "none", at |-> 0]
    /\ spc = "none"
    /\ sout = <<>>
    /\ ckey = <<>>
    /\ entry = <<>>
    /\ xpc = "start"
    /\ xres = <<>>

CacheSpecNext == (ConvertLookup \/ ConvertLower) /\ UNCHANGED <<kvars, dvars, lvars, zvars, evars, ovars>>

SpecCache == CacheSpecInit /\ [][CacheSpecNext]_vars

-----------------------------------------------------------------------------
(* Part 5: lower_and_optimize_nir: the argument lists of a kernel           *)
(* (kernel.rs:90-163, 562-836)                                              *)

\* a uniform or image variable of the shader
NirVar(loc, type, inline, smp) ==
    [location |-> loc, type |-> type, inline |-> inline, sampler |-> smp,
     driver_location |-> 0, binding |-> 0]

\* the match of from_spirv_nir on the address qualifier and the type (101-129)
KindOfArg(q, type, access) ==
    CASE q = "private" -> IF type = "sampler" THEN "Sampler" ELSE "Constant"
      [] q = "constant" -> "MemConstant"
      [] q = "local" -> "MemLocal"
      [] q = "global" ->
            IF type = "image"
            THEN (IF access = "non_writeable" THEN "Texture"
                  ELSE IF access = "non_readable" THEN "Image" ELSE "RWImage")
            ELSE "MemGlobal"

\* nir_arg_map.get(&i): the variable at location i
VarAt(vs, loc) == CHOOSE i \in 1..Len(vs) : vs[i].location = loc

\* KernelArg::from_spirv_nir (90-142)
from_spirv_nir(spirv, vs) ==
    [i \in 1..Len(spirv) |->
        [spirv |-> spirv[i].id,
         kind |-> KindOfArg(spirv[i].q, vs[VarAt(vs, i - 1)].type, spirv[i].access),
         size |-> spirv[i].size, offset |-> 0, binding |-> 0, dead |-> TRUE]]

\* the loop over the variables that gives the inline samplers their locations
\* and internal arguments (567-592), from variable i on
RECURSIVE InlineSamplerLoop(_, _, _, _)
InlineSamplerLoop(vs, i, last_loc, internal) ==
    IF i > Len(vs) THEN [vars |-> vs, internal_args |-> internal]
    ELSE IF vs[i].type # "sampler" THEN InlineSamplerLoop(vs, i + 1, vs[i].location, internal)
    ELSE IF vs[i].inline
    THEN InlineSamplerLoop([vs EXCEPT ![i].location = last_loc + 1], i + 1, last_loc + 1,
                           Append(internal, [kind |-> "InlineSampler", size |-> 0, offset |-> 0,
                                             sampler |-> vs[i].sampler]))
    ELSE InlineSamplerLoop(vs, i + 1, vs[i].location, internal)

\* can_remove_var (479-489)
can_remove_var(v) == v.type \notin {"image", "texture", "sampler"}

\* the sequence without the elements at the positions in S
RECURSIVE Without(_, _)
Without(q, S) ==
    IF q = <<>> THEN <<>>
    ELSE Without(SubSeq(q, 1, Len(q) - 1), S) \o
         (IF Len(q) \in S THEN <<>> ELSE <<q[Len(q)]>>)

\* one `if cond { internal_args.push(..); nir.add_var(.., location, ..) }`
\* of lines 635-754, on the pair of the internal arguments and the variables
PushInternal(st, cond, kind, size, nargs) ==
    IF ~cond THEN st
    ELSE LET ia == Append(st.internal_args,
                          [kind |-> kind, size |-> size, offset |-> 0, sampler |-> <<>>])
         IN [internal_args |-> ia,
             vars |-> Append(st.vars, NirVar(nargs + Len(ia) - 1, "value", FALSE, <<>>))]

\* nir.num_images() + nir.num_textures()
ImageCount(vs) == Cardinality({i \in 1..Len(vs) : vs[i].type \in {"image", "texture"}})

\* (variant: the constant buffer is added after the printf buffer)
InternalArgsForSwapped(st, c, bits, nargs) ==
    LET count == ImageCount(st.vars)
        s1 == PushInternal(st, c.base_global_invocation_id, "GlobalWorkOffsets", 3 * 8, nargs)
        s2 == PushInternal(s1, c.base_workgroup_id, "WorkGroupOffsets", 3 * 8, nargs)
        s3 == PushInternal(s2, c.num_workgroups, "NumWorkgroups", 12, nargs)
        s4 == PushInternal(s3, c.has_printf, "PrintfBuffer", bits \div 8, nargs)
        s5 == PushInternal(s4, c.has_constant, "ConstantBuffer", bits \div 8, nargs)
        s6 == PushInternal(s5, count > 0, "FormatArray", 2 * count, nargs)
        s7 == PushInternal(s6, count > 0, "OrderArray", 2 * count, nargs)
    IN PushInternal(s7, c.work_dim, "WorkDim", 1, nargs)

\* lines 635-754: the internal arguments the shader needs, each with its variable
InternalArgsFor(st, c, bits, nargs) ==
    LET count == ImageCount(st.vars)
        s1 == PushInternal(st, c.base_global_invocation_id, "GlobalWorkOffsets", 3 * 8, nargs)
        s2 == PushInternal(s1, c.base_workgroup_id, "WorkGroupOffsets", 3 * 8, nargs)
        s3 == PushInternal(s2, c.num_workgroups, "NumWorkgroups", 12, nargs)
        s4 == PushInternal(s3, c.has_constant, "ConstantBuffer", bits \div 8, nargs)
        s5 == PushInternal(s4, c.has_printf, "PrintfBuffer", bits \div 8, nargs)
        s6 == PushInternal(s5, count > 0, "FormatArray", 2 * count, nargs)
        s7 == PushInternal(s6, count > 0, "OrderArray", 2 * count, nargs)
    IN PushInternal(s7, c.work_dim, "WorkDim", 1, nargs)

\* (variant: a variable beyond the user arguments is ignored)
AssignOneUserOnly(st, v) ==
    IF v.location < Len(st.args)
    THEN [st EXCEPT !.args[v.location + 1].offset = v.driver_location,
                    !.args[v.location + 1].binding = v.binding,
                    !.args[v.location + 1].dead = FALSE]
    ELSE st

\* the loop body of KernelArg::assign_locations (152-161)
AssignOne(st, v) ==
    IF st.status # "ok" THEN st
    ELSE IF v.location < Len(st.args)
    THEN [st EXCEPT !.args[v.location + 1].offset = v.driver_location,
                    !.args[v.location + 1].binding = v.binding,
                    !.args[v.location + 1].dead = FALSE]
    ELSE IF v.location - Len(st.args) < Len(st.internal_args)
    THEN [st EXCEPT !.internal_args[v.location - Len(st.args) + 1].offset = v.driver_location]
    ELSE [st EXCEPT !.status = "panic"]

\* KernelArg::assign_locations (144-163), over the first n variables
RECURSIVE assign_locations(_, _, _)
assign_locations(st, vs, n) ==
    IF n = 0 THEN st ELSE AssignOne(assign_locations(st, vs, n - 1), vs[n])

\* ---- the shaders lowered

\* most user arguments, and most inline samplers, of a shader
MaxLowerArgs == 2

MaxInline == 1

\* what a user argument can be: its address qualifier, the type and access of
\* its variable, its size; the first two positions draw from different
\* halves, later ones are plain values
ArgShapes(i) ==
    IF i > 2
    THEN {[q |-> "private", type |-> "value", access |-> "none", size |-> 16]}
    ELSE IF i = 1
    THEN {[q |-> "private", type |-> "value", access |-> "none", size |-> 4],
          [q |-> "private", type |-> "sampler", access |-> "none", size |-> 8],
          [q |-> "global", type |-> "image", access |-> "non_writeable", size |-> 8],
          [q |-> "local", type |-> "value", access |-> "none", size |-> 8]}
    ELSE {[q |-> "global", type |-> "value", access |-> "none", size |-> 8],
          [q |-> "constant", type |-> "value", access |-> "none", size |-> 8],
          [q |-> "global", type |-> "image", access |-> "non_readable", size |-> 8],
          [q |-> "global", type |-> "image", access |-> "read_write", size |-> 8]}

RECURSIVE ArgShapeSeqs(_)
ArgShapeSeqs(n) ==
    IF n = 0 THEN {<<>>}
    ELSE {Append(q, [id |-> n % 4, q |-> a.q, type |-> a.type, access |-> a.access,
                     size |-> a.size]) : q \in ArgShapeSeqs(n - 1), a \in ArgShapes(n)}

\* what the shader reads and has: the conditions of lines 635-754
LowerConds ==
    [base_global_invocation_id : BOOLEAN, base_workgroup_id : BOOLEAN, num_workgroups : BOOLEAN,
     has_constant : BOOLEAN, has_printf : BOOLEAN, work_dim : BOOLEAN]

\* the variables of the shader as lowering finds them: one per user argument,
\* at the location of its index, then the inline samplers
InitialVars(spirv, ninline) ==
    [i \in 1..Len(spirv) |-> NirVar(i - 1, spirv[i].type, FALSE, <<>>)] \o
    [j \in 1..ninline |-> NirVar(0, "sampler", TRUE, <<4400 + j, 4416, j % 2 = 1>>)]

\* line 562
LowerFromSpirvNir ==
    /\ lpc = "start"
    /\ largs' = from_spirv_nir(lin.args, nvars)
    /\ lpc' = "samplers"
    /\ UNCHANGED <<lin, nvars, linternal>>

\* lines 563-592
LowerInlineSamplers ==
    /\ lpc = "samplers"
    /\ LET r == InlineSamplerLoop(nvars, 1, -1, <<>>)
       IN nvars' = r.vars /\ linternal' = r.internal_args
    /\ lpc' = "remove"
    /\ UNCHANGED <<lin, largs>>

\* lines 594-607: nir_remove_dead_variables removes the unused variables
\* among those can_remove_var admits
LowerRemoveDeadVariables(S) ==
    /\ lpc = "remove"
    /\ \A i \in S : can_remove_var(nvars[i])
    /\ nvars' = Without(nvars, S)
    /\ lpc' = "internal"
    /\ UNCHANGED <<lin, largs, linternal>>

\* lines 635-754
LowerInternalArgs ==
    /\ lpc = "internal"
    /\ LET r == InternalArgsFor([internal_args |-> linternal, vars |-> nvars], lin.conds,
                                lin.bits, Len(largs))
       IN nvars' = r.vars /\ linternal' = r.internal_args
    /\ lpc' = "final"
    /\ UNCHANGED <<lin, largs>>

\* lines 756-818: the remaining passes may drop one more variable, and give
\* every remaining one its driver_location and binding
LowerFinalPasses(S) ==
    /\ lpc = "final"
    /\ Cardinality(S) <= 1
    /\ LET left == Without(nvars, S)
       IN nvars' = [i \in 1..Len(left) |->
                      [left[i] EXCEPT !.driver_location = 8 * i, !.binding = i]]
    /\ lpc' = "assign"
    /\ UNCHANGED <<lin, largs, linternal>>

\* line 823
LowerAssignLocations ==
    /\ lpc = "assign"
    /\ LET r == assign_locations([args |-> largs, internal_args |-> linternal, status |-> "ok"],
                                 nvars, Len(nvars))
       IN /\ largs' = r.args
          /\ linternal' = r.internal_args
          /\ lpc' = IF r.status = "ok" THEN "done" ELSE "panicked"
    /\ UNCHANGED <<lin, nvars>>

LowerSpecInit ==
    /\ KernelInit
    /\ DispatchIdle
    /\ SerdeIdle
    /\ CacheIdle
    /\ LocalSizeIdle
    /\ EncodeIdle
    /\ InstrIdle
    /\ \E n \in 0..MaxLowerArgs, ninline \in 0..MaxInline, c \in LowerConds :
         \E spirv \in ArgShapeSeqs(n) :
            /\ lin = [args |-> spirv, ninline |-> ninline, conds |-> c,
                      bits |-> IF c.work_dim THEN 64 ELSE 32]
            /\ nvars = InitialVars(spirv, ninline)
    /\ largs = <<>>
    /\ linternal = <<>>
    /\ lpc = "start"

LowerSpecNext ==
    /\ \/ LowerFromSpirvNir
       \/ LowerInlineSamplers
       \/ \E S \in SUBSET (1..MaxLowerArgs) : LowerRemoveDeadVariables(S \cap (1..Len(nvars)))
       \/ LowerInternalArgs
       \/ \E i \in 0..(MaxLowerArgs + MaxInline + 8) :
             i <= Len(nvars) /\ LowerFinalPasses({i} \ {0})
       \/ LowerAssignLocations
    /\ UNCHANGED <<kvars, dvars, svars, cvars, zvars, evars, ovars>>

SpecLower == LowerSpecInit /\ [][LowerSpecNext]_vars

\* ---- properties of the lowered lists (C11, C12)

\* the place of a kind in the fixed order
KindRank(kind) ==
    CASE kind = "InlineSampler" -> 0 [] kind = "GlobalWorkOffsets" -> 1
      [] kind = "WorkGroupOffsets" -> 2 [] kind = "NumWorkgroups" -> 3
      [] kind = "ConstantBuffer" -> 4 [] kind = "PrintfBuffer" -> 5 [] kind = "FormatArray" -> 6
      [] kind = "OrderArray" -> 7 [] kind = "WorkDim" -> 8

\* C11: once the internal arguments have been added, their list is a
\* subsequence of inline samplers, GlobalWorkOffsets, WorkGroupOffsets,
\* NumWorkgroups, ConstantBuffer, PrintfBuffer, FormatArray, OrderArray,
\* WorkDim; only InlineSampler repeats; FormatArray is directly followed by
\* OrderArray and OrderArray directly preceded by FormatArray.
C11_FixedOrder ==
    lpc \in {"final", "assign", "done"} =>
        /\ \A i, j \in 1..Len(linternal) :
              i < j => \/ KindRank(linternal[i].kind) < KindRank(linternal[j].kind)
                       \/ /\ linternal[i].kind = "InlineSampler"
                          /\ linternal[j].kind = "InlineSampler"
        /\ \A i \in 1..Len(linternal) :
              /\ linternal[i].kind = "FormatArray" =>
                    i < Len(linternal) /\ linternal[i + 1].kind = "OrderArray"
              /\ linternal[i].kind = "OrderArray" =>
                    i > 1 /\ linternal[i - 1].kind = "FormatArray"

C11_Witness ==
    /\ lpc = "done"
    /\ Len(linternal) = 9
    /\ linternal[1].kind = "InlineSampler" /\ linternal[2].kind = "GlobalWorkOffsets"
    /\ linternal[7].kind = "FormatArray" /\ linternal[9].kind = "WorkDim"

\* the surviving variables at a location
VarsAt(loc) == {i \in 1..Len(nvars) : nvars[i].location = loc}

\* C12: assign_locations does not panic, and after it user argument i is live
\* exactly when a variable with location i survives, then with that
\* variable's driver_location and binding as offset and binding, and is
\* otherwise dead with offset 0 and binding 0; every surviving variable with
\* a location from the number of user arguments on has an internal argument
\* at index location - number of user arguments, whose offset is the
\* variable's driver_location.
C12_AssignLocations ==
    /\ lpc # "panicked"
    /\ lpc = "done" =>
          /\ \A i \in 1..Len(largs) :
                IF VarsAt(i - 1) # {}
                THEN /\ ~largs[i].dead
                     /\ \E v \in VarsAt(i - 1) :
                           /\ largs[i].offset = nvars[v].driver_location
                           /\ largs[i].binding = nvars[v].binding
                ELSE largs[i].dead /\ largs[i].offset = 0 /\ largs[i].binding = 0
          /\ \A v \in 1..Len(nvars) :
                nvars[v].location >= Len(largs) =>
                    /\ nvars[v].location - Len(largs) < Len(linternal)
                    /\ linternal[nvars[v].location - Len(largs) + 1].offset =
                          nvars[v].driver_location

C12_Witness ==
    /\ lpc = "done"
    /\ Len(largs) = 2 /\ largs[1].dead /\ ~largs[2].dead /\ largs[2].offset = 8
    /\ Len(linternal) = 3 /\ linternal[1].kind = "InlineSampler"
    /\ linternal[1].offset = 16 /\ linternal[2].offset = 0 /\ linternal[3].offset = 24

(***************************************************************************)
(* Part 6: Kernel::suggest_local_size and Kernel::optimize_local_size      *)
(* (kernel.rs:964-1019).  Slices are 1-based here: dimension i of the      *)
(* source is element i + 1.                                                *)
(***************************************************************************)

\* mesa_rust_util::math::gcd, the greatest common divisor
RECURSIVE gcd(_, _)
gcd(a, b) == IF b = 0 THEN a ELSE gcd(b, a % b)

\* block.iter().take(work_dim).product::<usize>()
RECURSIVE Product(_, _)
Product(s, n) == IF n = 0 THEN 1 ELSE s[n] * Product(s, n - 1)

\* (variant: only the per-dimension limit bounds a dimension)
ThreadLimitDimOnly(threads, dim) == dim

\* let t = cmp::min(threads, dim_threads[i])
ThreadLimit(threads, dim) == Min(threads, dim)

\* (variant: the budget is not reduced by the dimension just chosen)
RemainingThreadsKeep(threads, b) == threads

\* threads /= block[i]
RemainingThreads(threads, b) == threads \div b

\* (variant: the folded dimension keeps its block size)
FoldedBlockKeep(b, g) == b

\* block[i] *= grid[i]
FoldedBlock(b, g) == b * g

\* the dimension the second loop folds: the first i < work_dim with
\* grid[i] * total_threads < threads, or 0 when the loop finds none
FoldDim(g, total_threads, threads, work_dim) ==
    LET fit == {i \in 1..work_dim : g[i] * total_threads < threads}
    IN  IF fit = {} THEN 0 ELSE CHOOSE i \in fit : \A j \in fit : i <= j

\* largest grid size per dimension, largest max-threads-per-block
MaxLocalGrid == 4
MaxThreads == 6

\* grids of work_dim dimensions; the dimensions beyond work_dim are 1
LocalGrids(work_dim) ==
    {g \in [1..3 -> 1..MaxLocalGrid] : \A i \in 1..3 : i > work_dim => g[i] = 1}

\* the device limits read at lines 971-973
LocalDevices ==
    [max_threads : 1..MaxThreads, dim_threads : [1..3 -> {2, MaxThreads}], subgroups : {1, 4}]

\* blocks a caller passes to optimize_local_size: all zero (no local size
\* given) or a local size that divides the grid
GivenBlocks(g) ==
    {[i \in 1..3 |-> 0]} \cup {b \in [1..3 -> 1..2] : \A i \in 1..3 : g[i] % b[i] = 0}

\* suggest_local_size, entry: lines 971-973
SuggestEnter ==
    /\ ls_pc = "start"
    /\ ls_in.via = "suggest"
    /\ ls_threads' = ls_in.dev.max_threads
    /\ ls_pc' = "loop"
    /\ UNCHANGED <<ls_in, ls_grid, ls_block, ls_i, ls_note>>

\* optimize_local_size: a block without a zero divides the grid in place and
\* returns; otherwise suggest_local_size(d, 3, grid, &mut usize_block)
OptimizeEnter ==
    /\ ls_pc = "start"
    /\ ls_in.via = "optimize"
    /\ IF \A i \in 1..3 : ls_block[i] # 0
       THEN /\ ls_grid' = [i \in 1..3 |-> ls_grid[i] \div ls_block[i]]
            /\ ls_pc' = "done"
            /\ UNCHANGED ls_threads
       ELSE /\ ls_threads' = ls_in.dev.max_threads
            /\ ls_pc' = "loop"
            /\ UNCHANGED ls_grid
    /\ UNCHANGED <<ls_in, ls_block, ls_i, ls_note>>

\* one iteration of the loop at lines 975-984
SuggestLoop ==
    /\ ls_pc = "loop"
    /\ ls_i < ls_in.work_dim
    /\ LET i == ls_i + 1
           t == ThreadLimit(ls_threads, ls_in.dev.dim_threads[i])
           g == gcd(t, ls_grid[i])
       IN  /\ ls_block' = [ls_block EXCEPT ![i] = g]
           /\ ls_grid' = [ls_grid EXCEPT ![i] = @ \div g]
           /\ ls_threads' = RemainingThreads(ls_threads, g)
           /\ ls_note' = [ls_note EXCEPT !.clamped = @ \/ ls_in.dev.dim_threads[i] < ls_threads]
    /\ ls_i' = ls_i + 1
    /\ UNCHANGED <<ls_in, ls_pc>>

\* lines 986-997: the fold of one grid dimension into the block, and the return
\* (optimize_local_size then copies usize_block back into block)
SuggestFold ==
    /\ ls_pc = "loop"
    /\ ls_i = ls_in.work_dim
    /\ LET total_threads == Product(ls_block, ls_in.work_dim)
           i == IF ls_threads # 1 /\ total_threads < ls_in.dev.subgroups
                THEN FoldDim(ls_grid, total_threads, ls_threads, ls_in.work_dim)
                ELSE 0
       IN  IF i = 0
           THEN UNCHANGED <<ls_grid, ls_block, ls_note>>
           ELSE /\ ls_block' = [ls_block EXCEPT ![i] = FoldedBlock(@, ls_grid[i])]
                /\ ls_grid' = [ls_grid EXCEPT ![i] = 1]
                /\ ls_note' = [ls_note EXCEPT !.folded = i]
    /\ ls_pc' = "done"
    /\ UNCHANGED <<ls_in, ls_threads, ls_i>>

LocalSizeSpecInit ==
    /\ KernelInit
    /\ DispatchIdle
    /\ SerdeIdle
    /\ CacheIdle
    /\ LowerIdle
    /\ EncodeIdle
    /\ InstrIdle
    /\ \E via \in {"suggest", "optimize"}, work_dim \in 1..3, dev \in LocalDevices :
         \E g \in LocalGrids(work_dim) :
           \E b \in GivenBlocks(g) :
              /\ via = "suggest" => \A i \in 1..3 : b[i] = 0
              /\ via = "optimize" => work_dim = 3
              /\ ls_in = [via |-> via, work_dim |-> work_dim, grid |-> g, block |-> b, dev |-> dev]
              /\ ls_grid = g
              /\ ls_block = b
    /\ ls_threads = 0
    /\ ls_i = 0
    /\ ls_pc = "start"
    /\ ls_note = [clamped |-> FALSE, folded |-> 0]

LocalSizeSpecNext ==
    /\ \/ SuggestEnter
       \/ OptimizeEnter
       \/ SuggestLoop
       \/ SuggestFold
    /\ UNCHANGED <<kvars, dvars, svars, cvars, lvars, evars, ovars>>

SpecLocalSize == LocalSizeSpecInit /\ [][LocalSizeSpecNext]_vars

\* ---- properties of the suggested block (C13, C14, C15)

\* suggest_local_size has returned (directly or inside optimize_local_size)
Suggested == ls_pc = "done" /\ (ls_in.via = "suggest" \/ \E i \in 1..3 : ls_in.block[i] = 0)

\* product of block[0..work_dim]
BlockVolume == Product(ls_block, ls_in.work_dim)

\* C13: the block suggest_local_size returns has at most
\* max-threads-per-block threads (product of block[0..work_dim]), for every
\* grid, work_dim and device limits.
C13_ThreadCount == Suggested => BlockVolume <= ls_in.dev.max_threads

\* a call in which the per-dimension limit clamped a dimension and the
\* block fills the device's max-threads-per-block exactly
C13_Witness ==
    /\ Suggested
    /\ ls_note.clamped
    /\ ls_in.work_dim = 3
    /\ BlockVolume = ls_in.dev.max_threads
    /\ BlockVolume > 2

\* C14: after suggest_local_size every block[i] (i < work_dim) divides the
\* original grid[i] and block[i] times the adjusted grid[i] is the original
\* grid[i], also for the dimension folded into the block.
C14_BlockDividesGrid ==
    Suggested =>
        \A i \in 1..ls_in.work_dim :
            /\ ls_block[i] > 0
            /\ ls_in.grid[i] % ls_block[i] = 0
            /\ ls_block[i] * ls_grid[i] = ls_in.grid[i]

\* a call that folded a grid dimension larger than 1 into the block
C14_Witness ==
    /\ Suggested
    /\ ls_note.folded # 0
    /\ ls_block[ls_note.folded] = ls_in.grid[ls_note.folded]
    /\ ls_in.grid[ls_note.folded] > 1
    /\ \E i \in 1..ls_in.work_dim : ls_grid[i] > 1

\* C15 as stated: the block's volume always divides max-threads-per-block
C15_Original == Suggested => ls_in.dev.max_threads % BlockVolume = 0

\* C15: the block's volume divides the device's max-threads-per-block
\* whenever no per-dimension limit was below the remaining thread budget and
\* no grid dimension was folded into the block; in every case the volume is
\* at least 1 and at most max-threads-per-block.
C15_VolumeDivides ==
    Suggested =>
        /\ BlockVolume >= 1
        /\ BlockVolume <= ls_in.dev.max_threads
        /\ (~ls_note.clamped /\ ls_note.folded = 0) => ls_in.dev.max_threads % BlockVolume = 0

\* a call without clamping or folding whose block uses several dimensions
C15_Witness ==
    /\ Suggested
    /\ ~ls_note.clamped
    /\ ls_note.folded = 0
    /\ Cardinality({i \in 1..3 : ls_block[i] > 1}) >= 2
    /\ \E i \in 1..3 : ls_grid[i] > 1

\* C30: every block[i] (i < work_dim) suggest_local_size returns is at most
\* the device's per-dimension maximum block size max_block_sizes[i], also
\* after a grid dimension was folded into the block.
C30_Original ==
    Suggested => \A i \in 1..ls_in.work_dim : ls_block[i] <= ls_in.dev.dim_threads[i]

\* the per-dimension limit does hold for every dimension that was not folded
WithinLimitUnlessFolded ==
    Suggested =>
        \A i \in 1..ls_in.work_dim :
            i # ls_note.folded => ls_block[i] <= ls_in.dev.dim_threads[i]

(***************************************************************************)
(* Part 7: the SM50 encoder of the nouveau compiler (nak/sm50.rs):         *)
(* encode_sm50_shader, encode_instr and the branch offset of OpBra.        *)
(* Blocks and words are 1-based here; addresses are bytes as in the source.*)
(***************************************************************************)

\* usize::next_multiple_of
\* (variant: rounds down, so a partly filled group is dropped)
prev_multiple_of(n, m) == (n \div m) * m

next_multiple_of(n, m) == ((n + m - 1) \div m) * m

RECURSIVE Pow2(_)
Pow2(n) == IF n = 0 THEN 1 ELSE 2 * Pow2(n - 1)

\* HashMap::insert
MapInsert(m, k, v) == [x \in DOMAIN m \cup {k} |-> IF x = k THEN v ELSE m[x]]

\* the Label of the i-th block (labels are distinct)
LabelOf(i) == 100 + i

\* instructions: a branch to a label, or any other operation (OpExit here)
Bra(target) == [op |-> "bra", target |-> target]

OtherOp == [op |-> "exit", target |-> 0]

\* the bit ranges of the 64-bit instruction word the encoders below write
FieldName(range) ==
    CASE range = <<0, 5>> -> "b0_5"
      [] range = <<8, 12>> -> "b8_12"
      [] range = <<16, 19>> -> "b16_19"
      [] range = <<19, 20>> -> "b19_20"
      [] range = <<20, 44>> -> "b20_44"
      [] range = <<48, 64>> -> "b48_64"

\* a fresh SM50Encoder (lines 2713-2719): inst is [0_u32; 2]
NewEncoder(ip, labs) ==
    [ip |-> ip, labels |-> labs,
     inst |-> [b0_5 |-> 0, b8_12 |-> 0, b16_19 |-> 0, b19_20 |-> 0, b20_44 |-> 0, b48_64 |-> 0],
     sched |-> 0, status |-> "ok"]

\* set_field(range, val) for an unsigned val: the field is val
set_field(e, range, val) == [e EXCEPT !.inst[FieldName(range)] = val]

\* set_field(range, val) for an i32: the two's complement of val in the
\* width of the range; a value that does not fit the width fails the assert
set_field_signed(e, range, val) ==
    LET bits == range[2] - range[1]
    IN  IF val < -Pow2(bits - 1) \/ val >= Pow2(bits - 1)
        THEN [e EXCEPT !.status = "panic"]
        ELSE [e EXCEPT !.inst[FieldName(range)] = val % Pow2(bits)]

\* (variant: the offset is relative to the branch itself)
RelOffsetFromSelf(target_ip, ip) == target_ip - ip

\* let rel_offset = target_ip - ip - 8
RelOffset(target_ip, ip) == target_ip - ip - 8

\* SM50Encoder::set_rel_offset: labels.get(label).unwrap()
set_rel_offset(e, range, label) ==
    IF label \notin DOMAIN e.labels THEN [e EXCEPT !.status = "panic"]
    ELSE set_field_signed(e, range, RelOffset(e.labels[label], e.ip))

\* set_opcode(opcode)
set_opcode(e, opcode) == set_field(e, <<48, 64>>, opcode)

\* OpBra::encode, OpNop::encode and the opcode of any other operation
EncodeOp(e, instr) ==
    CASE instr.op = "bra" ->
            set_field(set_rel_offset(set_opcode(e, 57920), <<20, 44>>, instr.target), <<0, 5>>, 15)
      [] instr.op = "nop" -> set_field(set_opcode(e, 20656), <<8, 12>>, 15)
      [] OTHER -> set_opcode(e, 58112)

\* set_pred of an unpredicated instruction: the true predicate, not inverted
set_pred(e) == set_field(set_field(e, <<16, 19>>, 7), <<19, 20>>, 0)

\* set_instr_deps(InstrDeps::new()): no delay, no barrier (7 and 7)
set_instr_deps(e) == [e EXCEPT !.sched = 7 * 32 + 7 * 256]

\* encode_instr: a missing instruction is encoded as OpNop; *ip += 8; the
\* result carries the word, the ip the encoder was given and the new ip
encode_instr(instr_index, instr, labs, ip, sched_instr) ==
    LET e0 == NewEncoder(ip, labs)
        ins == IF IsSome(instr) THEN Unwrap(instr) ELSE [op |-> "nop", target |-> 0]
        e == set_instr_deps(set_pred(EncodeOp(e0, ins)))
    IN  [inst |-> e.inst, at |-> e0.ip, ip |-> ip + 8, status |-> e.status,
         sched_instr |-> [sched_instr EXCEPT ![instr_index + 1] = e.sched]]

\* (variant: the scheduling words are not counted)
BlockBytesNoSched(len) == next_multiple_of(len, 3) * 8

\* (block_num_instrs + (block_num_instrs / 3)) * 8
BlockBytes(len) ==
    LET block_num_instrs == next_multiple_of(len, 3)
    IN  (block_num_instrs + (block_num_instrs \div 3)) * 8

\* let mut ip = ((encoded.len() / 2) + 1) * 8, with one element per word
GroupIp(words) == (words + 1) * 8

\* instrs_iter.next() for the k-th instruction of a block
NextInstr(b, k) == IF k <= Len(b.instrs) THEN Some(b.instrs[k]) ELSE None

\* largest number of blocks of a function
MaxBlocks == 3

\* numbers of instructions a block can have
InstrCounts == {0, 2, 3, 4}

\* the blocks drawn for position i of n: any count of instructions; the last
\* one is OpExit or a branch to the first or to the last block
BlockChoices(i, n) ==
    LET body(len) == [k \in 1..len |-> OtherOp]
    IN  {[label |-> LabelOf(i), instrs |-> body(len)] : len \in InstrCounts} \cup
        {[label |-> LabelOf(i), instrs |-> [body(len) EXCEPT ![len] = Bra(LabelOf(t))]] :
            len \in InstrCounts \ {0}, t \in {1, n}}

RECURSIVE FuncChoices(_, _)
FuncChoices(i, n) ==
    IF i = 0 THEN {<<>>}
    ELSE {Append(f, b) : f \in FuncChoices(i - 1, n), b \in BlockChoices(i, n)}

\* one iteration of the first loop (2749-2760)
LabelBlock ==
    /\ sm_pc = "labels"
    /\ sm_b <= Len(sm_func)
    /\ sm_labels' = MapInsert(sm_labels, sm_func[sm_b].label, sm_num_instrs + 8)
    /\ sm_num_instrs' = sm_num_instrs + BlockBytes(Len(sm_func[sm_b].instrs))
    /\ sm_b' = sm_b + 1
    /\ UNCHANGED <<sm_func, sm_encoded, sm_g, sm_pc>>

\* the first loop is over: let mut encoded = Vec::new() (2762)
StartEncode ==
    /\ sm_pc = "labels"
    /\ sm_b > Len(sm_func)
    /\ sm_pc' = "encode"
    /\ sm_b' = 1
    /\ sm_g' = 0
    /\ UNCHANGED <<sm_func, sm_labels, sm_num_instrs, sm_encoded>>

\* one iteration of `for _ in 0..(block_num_instrs / 3)` (2769-2802)
EncodeGroup ==
    /\ sm_pc = "encode"
    /\ sm_b <= Len(sm_func)
    /\ sm_g < next_multiple_of(Len(sm_func[sm_b].instrs), 3) \div 3
    /\ LET b == sm_func[sm_b]
           r0 == encode_instr(0, NextInstr(b, 3 * sm_g + 1), sm_labels,
                              GroupIp(Len(sm_encoded)), <<0, 0, 0>>)
           r1 == encode_instr(1, NextInstr(b, 3 * sm_g + 2), sm_labels, r0.ip, r0.sched_instr)
           r2 == encode_instr(2, NextInstr(b, 3 * sm_g + 3), sm_labels, r1.ip, r1.sched_instr)
           word(r, k) == [kind |-> "instr", inst |-> r.inst, at |-> r.at,
                          from |-> IF IsSome(NextInstr(b, k)) THEN <<sm_b, k>> ELSE <<>>]
       IN  IF r0.status = "ok" /\ r1.status = "ok" /\ r2.status = "ok"
           THEN /\ sm_encoded' = sm_encoded \o
                      <<[kind |-> "sched", inst |-> r2.sched_instr, at |-> 0, from |-> <<>>],
                        word(r0, 3 * sm_g + 1), word(r1, 3 * sm_g + 2), word(r2, 3 * sm_g + 3)>>
                /\ sm_g' = sm_g + 1
                /\ UNCHANGED sm_pc
           ELSE /\ sm_pc' = "panicked"
                /\ UNCHANGED <<sm_encoded, sm_g>>
    /\ UNCHANGED <<sm_func, sm_labels, sm_num_instrs, sm_b>>

\* the groups of a block are done: the next block of `for b in &func.blocks`
EncodeNextBlock ==
    /\ sm_pc = "encode"
    /\ sm_b <= Len(sm_func)
    /\ sm_g = next_multiple_of(Len(sm_func[sm_b].instrs), 3) \div 3
    /\ sm_b' = sm_b + 1
    /\ sm_g' = 0
    /\ UNCHANGED <<sm_func, sm_labels, sm_num_instrs, sm_encoded, sm_pc>>

\* the second loop is over: encoded is returned
EncodeReturn ==
    /\ sm_pc = "encode"
    /\ sm_b > Len(sm_func)
    /\ sm_pc' = "done"
    /\ UNCHANGED <<sm_func, sm_labels, sm_num_instrs, sm_encoded, sm_b, sm_g>>

EncodeSpecInit ==
    /\ KernelInit
    /\ DispatchIdle
    /\ SerdeIdle
    /\ CacheIdle
    /\ LowerIdle
    /\ LocalSizeIdle
    /\ InstrIdle
    /\ \E n \in 1..MaxBlocks : sm_func \in FuncChoices(n, n)
    /\ sm_labels = <<>>
    /\ sm_num_instrs = 0
    /\ sm_encoded = <<>>
    /\ sm_b = 1
    /\ sm_g = 0
    /\ sm_pc = "labels"

EncodeSpecNext ==
    /\ \/ LabelBlock
       \/ StartEncode
       \/ EncodeGroup
       \/ EncodeNextBlock
       \/ EncodeReturn
    /\ UNCHANGED <<kvars, dvars, svars, cvars, lvars, zvars, ovars>>

SpecEncode == EncodeSpecInit /\ [][EncodeSpecNext]_vars

\* ---- properties of the emitted stream (C19, C20)

\* the byte address of the w-th word of the stream
AddressOf(w) == (w - 1) * 8

\* the words that encode a branch of the function, and the branch
BraWords ==
    {w \in 1..Len(sm_encoded) :
        /\ sm_encoded[w].from # <<>>
        /\ sm_func[sm_encoded[w].from[1]].instrs[sm_encoded[w].from[2]].op = "bra"}

TargetOf(w) == sm_func[sm_encoded[w].from[1]].instrs[sm_encoded[w].from[2]].target

\* a 24-bit field read as a signed number
Signed24(v) == IF v >= Pow2(23) THEN v - Pow2(24) ELSE v

\* C19: the value in bits 20..44 of every emitted branch is
\* target_ip - current_ip - 8 (as a 24-bit two's complement number), where
\* target_ip is the label table entry of the target block and current_ip the
\* byte address of the branch word itself in the stream, forward and
\* backward alike.
C19_BranchOffset ==
    /\ sm_pc # "panicked"
    /\ \A w \in BraWords :
          /\ sm_encoded[w].inst.b20_44 \in 0..(Pow2(24) - 1)
          /\ Signed24(sm_encoded[w].inst.b20_44) = sm_labels[TargetOf(w)] - AddressOf(w) - 8
          /\ sm_encoded[w].inst.b48_64 = 57920

\* a stream with a backward branch in the last slot of a group and a forward
\* branch over a padded block
C19_Witness ==
    /\ sm_pc = "done"
    /\ \E w \in BraWords :
          /\ Signed24(sm_encoded[w].inst.b20_44) < -8
          /\ sm_encoded[w].inst.b20_44 > Pow2(23)
          /\ w % 4 = 0
    /\ \E w \in BraWords :
          /\ Signed24(sm_encoded[w].inst.b20_44) >= 32
          /\ sm_encoded[w].inst.b20_44 = sm_labels[TargetOf(w)] - AddressOf(w) - 8

\* bytes of the blocks before block i: each padded to a multiple of 3
\* instructions, one scheduling word per 3
RECURSIVE BytesBefore(_)
BytesBefore(i) ==
    IF i = 1 THEN 0
    ELSE LET len == Len(sm_func[i - 1].instrs)
             padded == IF len % 3 = 0 THEN len ELSE len + (3 - (len % 3))
         IN  BytesBefore(i - 1) + 8 * padded + 8 * (padded \div 3)

\* the word of the first instruction of block i, if the block has one
FirstWords(i) == {w \in 1..Len(sm_encoded) : sm_encoded[w].from = <<i, 1>>}

\* C20: the address the first loop stores for a block's label is the
\* instruction pointer the second loop gives the first instruction slot of
\* that block: 8 bytes past the start of the block's first scheduling word,
\* with every earlier block padded to a multiple of 3 instructions and one
\* scheduling word counted per group of 3.
C20_LabelAddress ==
    /\ \A i \in 1..Len(sm_func) :
          sm_func[i].label \in DOMAIN sm_labels =>
              sm_labels[sm_func[i].label] = BytesBefore(i) + 8
    /\ sm_pc \in {"encode", "done"} =>
          \A i \in 1..Len(sm_func) : \A w \in FirstWords(i) :
              /\ sm_encoded[w].at = sm_labels[sm_func[i].label]
              /\ AddressOf(w) = sm_labels[sm_func[i].label]
              /\ sm_encoded[w - 1].kind = "sched"
              /\ AddressOf(w - 1) = BytesBefore(i)

\* three blocks of 4, 2 and 3 instructions: the third starts after 64 + 32
\* bytes, its label is 104 and its first instruction is word 14
C20_Witness ==
    /\ sm_pc = "done"
    /\ Len(sm_func) = 3
    /\ Len(sm_func[1].instrs) = 4
    /\ Len(sm_func[2].instrs) = 2
    /\ sm_labels[LabelOf(3)] = 104
    /\ FirstWords(3) = {14}
    /\ sm_encoded[14].at = 104

\* ---- the groups of the encoded stream (C26)

\* ceil(n / 3)
GroupsOf(n) == (n + 2) \div 3

\* number of groups of the blocks before block i
RECURSIVE GroupsBefore(_)
GroupsBefore(i) ==
    IF i <= 1 THEN 0
    ELSE GroupsBefore(i - 1) + GroupsOf(Len(sm_func[i - 1].instrs))

\* the word of a padding slot: OpNop, predicate PT not inverted
IsPaddingNop(w) ==
    /\ w.kind = "instr"
    /\ w.from = <<>>
    /\ w.inst.b48_64 = 20656
    /\ w.inst.b8_12 = 15
    /\ w.inst.b16_19 = 7
    /\ w.inst.b19_20 = 0

\* group g (from 0) of block i: a scheduling word, then the instructions
\* 3g+1..3g+3 of the block in program order, NOPs where the block has ended
GroupLayout(i, g) ==
    LET base == 4 * (GroupsBefore(i) + g)
        n == Len(sm_func[i].instrs)
    IN  /\ sm_encoded[base + 1].kind = "sched"
        /\ \A t \in 1..3 :
              LET w == sm_encoded[base + 1 + t]
                  k == 3 * g + t
              IN  IF k <= n
                  THEN /\ w.kind = "instr"
                       /\ w.from = <<i, k>>
                       /\ w.at = 8 * (base + 1 + t) - 8
                  ELSE /\ IsPaddingNop(w)
                       /\ sm_encoded[base + 1].inst[t] = 7 * 32 + 7 * 256

\* C26: encode_sm50_shader emits for each block of n instructions exactly
\* ceil(n/3) groups of one scheduling word and three instructions in program
\* order (eight 32-bit words, here four 64-bit words); the free slots of the
\* last group of a block hold NOPs with the always-true predicate and the
\* default dependencies; the length is 8 * the sum of ceil(n/3) 32-bit words
\* and no group holds instructions of two blocks.
C26_Groups ==
    sm_pc = "done" =>
        /\ 2 * Len(sm_encoded) = 8 * GroupsBefore(Len(sm_func) + 1)
        /\ \A i \in 1..Len(sm_func) :
              \A g \in 0..(GroupsOf(Len(sm_func[i].instrs)) - 1) : GroupLayout(i, g)
        /\ \A w1, w2 \in 1..Len(sm_encoded) :
              (/\ (w1 - 1) \div 4 = (w2 - 1) \div 4
               /\ sm_encoded[w1].from # <<>>
               /\ sm_encoded[w2].from # <<>>)
                  => sm_encoded[w1].from[1] = sm_encoded[w2].from[1]

\* blocks of 4, 0 and 2 instructions: two groups, none, one; three NOPs
C26_Witness ==
    /\ sm_pc = "done"
    /\ Len(sm_func) = 3
    /\ Len(sm_func[1].instrs) = 4
    /\ Len(sm_func[2].instrs) = 0
    /\ Len(sm_func[3].instrs) = 2
    /\ Len(sm_encoded) = 12
    /\ IsPaddingNop(sm_encoded[7]) /\ IsPaddingNop(sm_encoded[8])
    /\ IsPaddingNop(sm_encoded[12])
    /\ sm_encoded[10].from = <<3, 1>>

-----------------------------------------------------------------------------
(* Part 8: SM50 immediates, legalization and per-instruction encoding        *)
(* (nak/sm50.rs:96-1738)                                                     *)

\* a u32 is kept as its two 16-bit halves <<high, low>>, so that no
\* intermediate value leaves the range of the integers of the checker
Hi(u) == u[1]

Lo(u) == u[2]

\* bit b (0..31) of a u32
Bit(u, b) == IF b < 16 THEN (Lo(u) \div Pow2(b)) % 2 ELSE (Hi(u) \div Pow2(b - 16)) % 2

\* (variant: the mask is 0xfff00000, one bit short)
PackI20Mask20(i) ==
    IF Hi(i) \div 16 \in {0, 4095}
    THEN [ok |-> TRUE, field |-> (Hi(i) % 8) * 65536 + Lo(i), sign |-> (Hi(i) \div 8) % 2]
    ELSE [ok |-> FALSE, field |-> 0, sign |-> 0]

\* set_src_imm_i20 (211-223): assert (i & 0xfff80000) is 0 or 0xfff80000;
\* the field is i & 0x7ffff and the sign bit is (i & 0x80000) >> 19
PackI20(i) ==
    IF Hi(i) \div 8 \in {0, 8191}
    THEN [ok |-> TRUE, field |-> (Hi(i) % 8) * 65536 + Lo(i), sign |-> (Hi(i) \div 8) % 2]
    ELSE [ok |-> FALSE, field |-> 0, sign |-> 0]

\* set_src_imm_f20 (224-235): assert (f & 0x00000fff) == 0; the field is
\* (f >> 12) & 0x7ffff and the sign bit is f >> 31
PackF20(f) ==
    IF Lo(f) % 4096 = 0
    THEN [ok |-> TRUE, field |-> (Hi(f) * 16 + Lo(f) \div 4096) % 524288, sign |-> Hi(f) \div 32768]
    ELSE [ok |-> FALSE, field |-> 0, sign |-> 0]

\* the halves drawn for the immediates
ImmHighs == {0, 7, 8, 18, 16256, 32768, 65527, 65528, 65535}

ImmLows == {0, 1, 4095, 4096, 13398, 32768, 65535}

\* a call of set_src_imm_i20 with the drawn value
CallImmI20 ==
    /\ imm_pc = "drawn"
    /\ imm_out' = PackI20(imm_in)
    /\ imm_pc' = "i20"
    /\ UNCHANGED <<op_in, op_leg, op_copies, op_e, op_pc, imm_in>>

\* a call of set_src_imm_f20 with the drawn value
CallImmF20 ==
    /\ imm_pc = "drawn"
    /\ imm_out' = PackF20(imm_in)
    /\ imm_pc' = "f20"
    /\ UNCHANGED <<op_in, op_leg, op_copies, op_e, op_pc, imm_in>>

ImmSpecInit ==
    /\ KernelInit
    /\ DispatchIdle
    /\ SerdeIdle
    /\ CacheIdle
    /\ LowerIdle
    /\ LocalSizeIdle
    /\ EncodeIdle
    /\ op_in = <<>>
    /\ op_leg = <<>>
    /\ op_copies = <<>>
    /\ op_e = <<>>
    /\ op_pc = "none"
    /\ imm_in \in ImmHighs \X ImmLows
    /\ imm_out = <<>>
    /\ imm_pc = "drawn"

ImmSpecNext ==
    /\ \/ CallImmI20
       \/ CallImmF20
    /\ UNCHANGED <<kvars, dvars, svars, cvars, lvars, zvars, evars>>

SpecImm == ImmSpecInit /\ [][ImmSpecNext]_vars

\* the u32 that sign-extending the 20-bit value (sign, field) gives
SignExtend20(sign, field) ==
    LET v == sign * 524288 + field
    IN  IF sign = 1 THEN <<65520 + v \div 65536, v % 65536>>
        ELSE <<v \div 65536, v % 65536>>

\* the u32 (sign << 31) | (field << 12)
FromF20(sign, field) == <<sign * 32768 + field \div 16, (field % 16) * 4096>>

\* C23: set_src_imm_i20 accepts a value only if bits 19..31 are all zero or
\* all one and set_src_imm_f20 only if bits 0..11 are zero; every other
\* value fails the assertion; for an accepted value the 19-bit field and the
\* sign bit give the value back (sign extension from 20 bits, respectively
\* (sign << 31) | (field << 12)).
C23_ImmLossless ==
    /\ imm_pc = "i20" =>
          /\ imm_out.ok <=> (\/ \A b \in 19..31 : Bit(imm_in, b) = 0
                             \/ \A b \in 19..31 : Bit(imm_in, b) = 1)
          /\ imm_out.ok =>
                /\ imm_out.field \in 0..524287
                /\ imm_out.sign \in {0, 1}
                /\ SignExtend20(imm_out.sign, imm_out.field) = imm_in
    /\ imm_pc = "f20" =>
          /\ imm_out.ok <=> \A b \in 0..11 : Bit(imm_in, b) = 0
          /\ imm_out.ok =>
                /\ imm_out.field \in 0..524287
                /\ imm_out.sign \in {0, 1}
                /\ FromF20(imm_out.sign, imm_out.field) = imm_in

\* 0xfff83456 was packed by set_src_imm_i20: a negative value, sign bit set
C23_Witness ==
    /\ imm_pc = "i20"
    /\ imm_in = <<65528, 13398>>
    /\ imm_out.ok
    /\ imm_out.sign = 1
    /\ imm_out.field = 13398

\* ---- sources and the SM50Encoder (96-263)

\* a source: ref is "reg", "zero", "imm", "cbuf" (or "true", "false", "preg"
\* for a predicate); val is <<0, register index>>, the halves of the
\* immediate, or <<binding index, byte offset>>; mod is the source modifier
MkSrc(ref, val, mod) == [ref |-> ref, val |-> val, mod |-> mod]

has_fabs(src) == src.mod \in {"fabs", "fnegabs"}

has_fneg(src) == src.mod \in {"fneg", "fnegabs"}

is_ineg(src) == src.mod = "ineg"

is_bnot(src) == src.mod = "bnot"

\* Src::is_reg_or_zero (54-58)
is_reg_or_zero(src) == src.ref \in {"zero", "reg"}

\* the encoder: w is the list of fields written to inst, in order, each
\* with its bit range lo..hi (hi excluded) and its value as two halves;
\* st is "ok" until a panic or a failed assertion, after which nothing runs
NewEnc == [w |-> <<>>, st |-> "ok"]

EncPanic(e) == [e EXCEPT !.st = "panic"]

\* set_field on the 64-bit word: the value has to fit the range
set_field64(e, lo, hi, v) ==
    IF e.st # "ok" THEN e
    ELSE IF v >= Pow2(hi - lo) THEN EncPanic(e)
    ELSE [e EXCEPT !.w = Append(@, [lo |-> lo, hi |-> hi,
                                    val |-> <<v \div 65536, v % 65536>>])]

set_bit(e, bit, b) == set_field64(e, bit, bit + 1, IF b THEN 1 ELSE 0)

\* set_opcode (96-98)
set_opcode64(e, opcode) == set_field64(e, 48, 64, opcode)

\* set_pred_reg (100-106)
set_pred_reg(e, lo, hi, idx) ==
    IF hi - lo # 3 \/ idx > 7 THEN EncPanic(e) ELSE set_field64(e, lo, hi, idx)

\* set_pred (108-119): PredRef::None is the register 7
set_pred64(e, pred) ==
    IF pred.ref = "false" THEN EncPanic(e)
    ELSE set_bit(set_pred_reg(e, 16, 19, IF pred.ref = "none" THEN 7 ELSE pred.val[2]),
                 19, pred.pred_inv)

\* set_reg (132-136)
set_reg(e, lo, hi, idx) ==
    IF hi - lo # 8 THEN EncPanic(e) ELSE set_field64(e, lo, hi, idx)

\* set_reg_src_ref (138-144): zero is the register 255
set_reg_src_ref(e, lo, hi, src) ==
    CASE src.ref = "zero" -> set_reg(e, lo, hi, 255)
      [] src.ref = "reg" -> set_reg(e, lo, hi, src.val[2])
      [] OTHER -> EncPanic(e)

\* set_reg_src (146-149)
set_reg_src(e, lo, hi, src) ==
    IF src.mod # "none" THEN EncPanic(e) ELSE set_reg_src_ref(e, lo, hi, src)

\* set_reg_fmod_src (151-161)
set_reg_fmod_src(e, lo, hi, abs_bit, neg_bit, src) ==
    set_bit(set_bit(set_reg_src_ref(e, lo, hi, src), abs_bit, has_fabs(src)),
            neg_bit, has_fneg(src))

\* set_reg_ineg_src (163-171)
set_reg_ineg_src(e, lo, hi, neg_bit, src) ==
    set_bit(set_reg_src_ref(e, lo, hi, src), neg_bit, is_ineg(src))

\* set_pred_dst (173-181) with Dst::None or a predicate register
set_pred_dst(e, lo, hi, dst) ==
    set_pred_reg(e, lo, hi, IF dst.ref = "none" THEN 7 ELSE dst.val[2])

\* set_pred_src (183-195)
set_pred_src(e, lo, hi, not_bit, src) ==
    CASE src.ref = "true" -> set_bit(set_pred_reg(e, lo, hi, 7), not_bit, is_bnot(src))
      [] src.ref = "false" -> set_bit(set_pred_reg(e, lo, hi, 7), not_bit, ~is_bnot(src))
      [] src.ref = "preg" -> set_bit(set_pred_reg(e, lo, hi, src.val[2]), not_bit, is_bnot(src))
      [] OTHER -> EncPanic(e)

\* set_dst (197-204)
set_dst(e, dst) == set_reg(e, 0, 8, IF dst.ref = "none" THEN 255 ELSE dst.val[2])

\* set_src_imm32 (206-209): the 32 bits go in as they are
set_src_imm32(e, lo, hi, u) ==
    IF e.st # "ok" THEN e
    ELSE IF hi - lo # 32 THEN EncPanic(e)
    ELSE [e EXCEPT !.w = Append(@, [lo |-> lo, hi |-> hi, val |-> u])]

\* set_src_imm_i20 (211-223)
set_src_imm_i20(e, lo, hi, sign_bit, i) ==
    IF hi - lo # 19 \/ ~PackI20(i).ok THEN EncPanic(e)
    ELSE set_field64(set_field64(e, lo, hi, PackI20(i).field),
                     sign_bit, sign_bit + 1, PackI20(i).sign)

\* set_src_imm_f20 (224-235)
set_src_imm_f20(e, lo, hi, sign_bit, f) ==
    IF hi - lo # 19 \/ ~PackF20(f).ok THEN EncPanic(e)
    ELSE set_field64(set_field64(e, lo, hi, PackF20(f).field),
                     sign_bit, sign_bit + 1, PackF20(f).sign)

\* set_src_cb (237-248) with a bound constant buffer <<idx, offset>>
set_src_cb(e, lo, hi, cb) ==
    IF cb[2] % 4 # 0 THEN EncPanic(e)
    ELSE set_field64(set_field64(e, lo, lo + 14, cb[2] \div 4), lo + 14, lo + 19, cb[1])

\* set_cb_fmod_src (250-265)
set_cb_fmod_src(e, lo, hi, abs_bit, neg_bit, src) ==
    IF src.ref # "cbuf" THEN EncPanic(e)
    ELSE set_bit(set_bit(set_src_cb(e, lo, hi, src.val), abs_bit, has_fabs(src)),
                 neg_bit, has_fneg(src))

\* set_cb_ineg_src (267-280)
set_cb_ineg_src(e, lo, hi, neg_bit, src) ==
    IF src.ref # "cbuf" THEN EncPanic(e)
    ELSE set_bit(set_src_cb(e, lo, hi, src.val), neg_bit, is_ineg(src))

\* set_rnd_mode (357-368), set_float_cmp_op (624-645): the field of the
\* enum value
RndModeBits(m) ==
    CASE m = "NearestEven" -> 0 [] m = "NegInf" -> 1 [] m = "PosInf" -> 2 [] m = "Zero" -> 3

FloatCmpBits(c) ==
    CASE c = "OrdLt" -> 1 [] c = "OrdEq" -> 2 [] c = "OrdLe" -> 3 [] c = "OrdGt" -> 4
      [] c = "OrdNe" -> 5 [] c = "OrdGe" -> 6 [] c = "UnordLt" -> 9 [] c = "UnordEq" -> 10
      [] c = "UnordLe" -> 11 [] c = "UnordGt" -> 12 [] c = "UnordNe" -> 13
      [] c = "UnordGe" -> 14 [] c = "IsNum" -> 7 [] c = "IsNan" -> 8

\* Src::as_imm_not_f20 / as_imm_not_i20: the immediate does not fit the
\* 20-bit float, respectively integer, form
imm_not_f20(src) == src.ref = "imm" /\ ~PackF20(src.val).ok

imm_not_i20(src) == src.ref = "imm" /\ ~PackI20(src.val).ok

\* ---- the encoders (SM50Op::encode of each operation)

\* OpFAdd::encode (379-411)
OpFAdd_encode(e0, op) ==
    LET s0 == op.srcs[1]
        s1 == op.srcs[2]
    IN  IF imm_not_f20(s1)
        THEN LET e1 == set_opcode64(e0, 2048)
                 e2 == set_dst(e1, op.dst)
                 e3 == set_reg_fmod_src(e2, 8, 16, 54, 56, s0)
                 e4 == set_src_imm32(e3, 20, 52, s1.val)
             IN  set_bit(e4, 55, op.ftz)
        ELSE LET e1 == CASE s1.ref \in {"zero", "reg"} ->
                              set_reg_fmod_src(set_opcode64(e0, 23640), 20, 28, 49, 45, s1)
                         [] s1.ref = "imm" ->
                              LET x == set_src_imm_f20(set_opcode64(e0, 14424), 20, 39, 56, s1.val)
                              IN  IF s1.mod = "none" THEN x ELSE EncPanic(x)
                         [] s1.ref = "cbuf" ->
                              set_cb_fmod_src(set_opcode64(e0, 19544), 20, 39, 49, 45, s1)
                         [] OTHER -> EncPanic(e0)
                 e2 == set_dst(e1, op.dst)
                 e3 == set_reg_fmod_src(e2, 8, 16, 46, 48, s0)
                 e4 == set_field64(e3, 39, 41, RndModeBits(op.rnd_mode))
                 e5 == set_bit(e4, 44, op.ftz)
             IN  set_bit(e5, 50, op.saturate)

\* OpFMul::encode (507-552)
OpFMul_encode(e0, op) ==
    LET s0 == op.srcs[1]
        s1 == op.srcs[2]
        neg == has_fneg(s0) # has_fneg(s1)
        e9 == IF imm_not_f20(s1)
              THEN LET e1 == set_opcode64(e0, 7680)
                       e2 == set_bit(e1, 53, op.ftz)
                       e3 == set_bit(e2, 54, op.dnz)
                       e4 == set_bit(e3, 55, op.saturate)
                       e5 == set_src_imm32(e4, 20, 52, s1.val)
                   IN  set_bit(e5, 19, neg)
              ELSE LET e1 == CASE s1.ref = "imm" ->
                                    set_src_imm_f20(set_opcode64(e0, 14440), 20, 39, 56, s1.val)
                               [] s1.ref \in {"zero", "reg"} ->
                                    set_reg_src(set_opcode64(e0, 23656), 20, 28, s1)
                               [] s1.ref = "cbuf" ->
                                    set_src_cb(set_opcode64(e0, 19560), 20, 39, s1.val)
                               [] OTHER -> EncPanic(e0)
                       e2 == set_field64(e1, 39, 41, RndModeBits(op.rnd_mode))
                       e3 == set_field64(e2, 41, 44, 0)
                       e4 == set_bit(e3, 44, op.ftz)
                       e5 == set_bit(e4, 45, op.dnz)
                       e6 == set_bit(e5, 48, neg)
                   IN  set_bit(e6, 50, op.saturate)
    IN  set_dst(set_reg_fmod_src(e9, 8, 16, 46, 48, s0), op.dst)

\* OpFSet::encode (686-709)
OpFSet_encode(e0, op) ==
    LET s0 == op.srcs[1]
        s1 == op.srcs[2]
        e1 == CASE s1.ref = "imm" ->
                     set_src_imm_f20(set_opcode64(e0, 12288), 20, 39, 56, s1.val)
                [] s1.ref \in {"zero", "reg"} ->
                     set_reg_fmod_src(set_opcode64(e0, 22528), 20, 28, 44, 53, s1)
                [] s1.ref = "cbuf" ->
                     set_cb_fmod_src(set_opcode64(e0, 18432), 20, 39, 44, 6, s1)
                [] OTHER -> EncPanic(e0)
        e2 == set_reg_fmod_src(e1, 8, 16, 54, 43, s0)
        e3 == set_pred_src(e2, 39, 42, 42, MkSrc("true", <<0, 0>>, "none"))
        e4 == set_field64(e3, 48, 52, FloatCmpBits(op.cmp_op))
        e5 == set_bit(e4, 52, TRUE)
        e6 == set_bit(e5, 55, op.ftz)
    IN  set_dst(e6, op.dst)

\* OpFSetP::encode (723-747)
OpFSetP_encode(e0, op) ==
    LET s0 == op.srcs[1]
        s1 == op.srcs[2]
        e1 == CASE s1.ref = "imm" ->
                     set_src_imm_f20(set_opcode64(e0, 14000), 20, 39, 56, s1.val)
                [] s1.ref \in {"zero", "reg"} ->
                     set_reg_fmod_src(set_opcode64(e0, 23472), 20, 28, 44, 6, s1)
                [] s1.ref = "cbuf" ->
                     set_cb_fmod_src(set_opcode64(e0, 19376), 20, 39, 44, 6, s1)
                [] OTHER -> EncPanic(e0)
        e2 == set_pred_dst(e1, 3, 6, op.dst)
        e3 == set_pred_dst(e2, 0, 3, [ref |-> "none", val |-> <<0, 0>>])
        e4 == set_pred_src(e3, 39, 42, 42, op.accum)
        e5 == set_field64(e4, 45, 47, op.set_op)
        e6 == set_bit(e5, 47, op.ftz)
        e7 == set_field64(e6, 48, 52, FloatCmpBits(op.cmp_op))
    IN  set_reg_fmod_src(e7, 8, 16, 7, 43, s0)

\* OpDSetP::encode (973-997)
OpDSetP_encode(e0, op) ==
    LET s0 == op.srcs[1]
        s1 == op.srcs[2]
        e1 == CASE s1.ref \in {"zero", "reg"} ->
                     set_reg_fmod_src(set_opcode64(e0, 23424), 20, 28, 44, 6, s1)
                [] s1.ref = "imm" ->
                     LET x == set_src_imm_f20(set_opcode64(e0, 13952), 20, 39, 56, s1.val)
                     IN  IF s1.mod = "none" THEN x ELSE EncPanic(x)
                [] s1.ref = "cbuf" ->
                     set_reg_fmod_src(set_opcode64(e0, 19328), 20, 39, 44, 6, s1)
                [] OTHER -> EncPanic(e0)
        e2 == set_pred_dst(e1, 3, 6, op.dst)
        e3 == set_pred_dst(e2, 0, 3, [ref |-> "none", val |-> <<0, 0>>])
        e4 == set_pred_src(e3, 39, 42, 42, op.accum)
        e5 == set_field64(e4, 45, 47, op.set_op)
        e6 == set_field64(e5, 48, 52, FloatCmpBits(op.cmp_op))
    IN  set_reg_fmod_src(e6, 8, 16, 7, 43, s0)

\* (variant: OpIAdd2 without its 32-bit immediate form)
OpIAdd2_encode_no_imm32(e0, op) ==
    LET s0 == op.srcs[1]
        s1 == op.srcs[2]
        e1 == CASE s1.ref \in {"zero", "reg"} ->
                     set_reg_ineg_src(set_opcode64(e0, 23568), 20, 28, 48, s1)
                [] s1.ref = "imm" ->
                     set_src_imm_i20(set_opcode64(e0, 14352), 20, 39, 56, s1.val)
                [] s1.ref = "cbuf" ->
                     set_cb_ineg_src(set_opcode64(e0, 19472), 20, 39, 48, s1)
                [] OTHER -> EncPanic(e0)
        e2 == set_dst(e1, op.dst)
        e3 == set_reg_ineg_src(e2, 8, 16, 49, s0)
        e4 == set_bit(e3, 43, FALSE)
    IN  set_bit(e4, 47, FALSE)

\* OpIAdd2::encode (1076-1120) with carry_in zero and no carry_out
OpIAdd2_encode(e0, op) ==
    LET s0 == op.srcs[1]
        s1 == op.srcs[2]
    IN  IF imm_not_i20(s1)
        THEN LET e1 == set_opcode64(e0, 7168)
                 e2 == set_dst(e1, op.dst)
                 e3 == set_reg_ineg_src(e2, 8, 16, 56, s0)
                 e4 == set_src_imm32(e3, 20, 52, s1.val)
                 e5 == set_bit(e4, 53, FALSE)
             IN  set_bit(e5, 52, FALSE)
        ELSE LET e1 == CASE s1.ref \in {"zero", "reg"} ->
                              set_reg_ineg_src(set_opcode64(e0, 23568), 20, 28, 48, s1)
                         [] s1.ref = "imm" ->
                              set_src_imm_i20(set_opcode64(e0, 14352), 20, 39, 56, s1.val)
                         [] s1.ref = "cbuf" ->
                              set_cb_ineg_src(set_opcode64(e0, 19472), 20, 39, 48, s1)
                         [] OTHER -> EncPanic(e0)
                 e2 == set_dst(e1, op.dst)
                 e3 == set_reg_ineg_src(e2, 8, 16, 49, s0)
                 e4 == set_bit(e3, 43, FALSE)
             IN  set_bit(e4, 47, FALSE)

\* OpIMad::encode (1137-1178): neg_1_bit is 51, neg_2_bit is 52
OpIMad_encode(e0, op) ==
    LET s0 == op.srcs[1]
        s1 == op.srcs[2]
        s2 == op.srcs[3]
        e1 == CASE s2.ref = "imm" -> EncPanic(e0)
                [] s2.ref = "reg" ->
                     CASE s1.ref = "imm" ->
                            set_src_imm_i20(set_opcode64(e0, 13312), 20, 39, 56, s1.val)
                       [] s1.ref \in {"zero", "reg"} ->
                            set_reg_ineg_src(set_opcode64(e0, 23040), 20, 28, 51, s1)
                       [] s1.ref = "cbuf" ->
                            set_cb_ineg_src(set_opcode64(e0, 18944), 20, 39, 51, s1)
                       [] OTHER -> EncPanic(e0)
                [] s2.ref = "cbuf" ->
                     set_cb_ineg_src(set_reg_ineg_src(set_opcode64(e0, 20992), 39, 47, 51, s1),
                                     20, 39, 52, s2)
                [] OTHER -> EncPanic(e0)
        e2 == set_bit(e1, 48, op.signed[1])
        e3 == set_bit(e2, 51, is_ineg(s0) # is_ineg(s1))
        e4 == set_bit(e3, 53, op.signed[1])
        e5 == set_reg_src(e4, 8, 16, s0)
    IN  set_dst(e5, op.dst)

\* OpIMul::encode (1191-1226)
OpIMul_encode(e0, op) ==
    LET s0 == op.srcs[1]
        s1 == op.srcs[2]
        a0 == IF s0.mod = "none" /\ s1.mod = "none" THEN e0 ELSE EncPanic(e0)
        a1 == set_dst(a0, op.dst)
        a2 == set_reg_src(a1, 8, 16, s0)
    IN  IF imm_not_i20(s1)
        THEN LET e1 == set_opcode64(a2, 8128)
                 e2 == set_src_imm32(e1, 20, 52, s1.val)
                 e3 == set_bit(e2, 53, op.high)
                 e4 == set_bit(e3, 54, op.signed[1])
             IN  set_bit(e4, 55, op.signed[2])
        ELSE LET e1 == CASE s1.ref \in {"zero", "reg"} ->
                              set_reg_src(set_opcode64(a2, 23608), 20, 28, s1)
                         [] s1.ref = "imm" ->
                              set_src_imm_i20(set_opcode64(a2, 14392), 20, 39, 56, s1.val)
                         [] s1.ref = "cbuf" ->
                              set_src_cb(set_opcode64(a2, 19512), 20, 39, s1.val)
                         [] OTHER -> EncPanic(a2)
                 e2 == set_bit(e1, 39, op.high)
                 e3 == set_bit(e2, 40, op.signed[1])
             IN  set_bit(e3, 41, op.signed[2])

\* LogicOp2 as the field value; PassB has none in the 32-bit immediate form
LogicOpBits(o) == CASE o = "And" -> 0 [] o = "Or" -> 1 [] o = "Xor" -> 2 [] o = "PassB" -> 3

\* OpLop2::encode (1327-1382)
OpLop2_encode(e0, op) ==
    LET s0 == op.srcs[1]
        s1 == op.srcs[2]
    IN  IF imm_not_i20(s1)
        THEN LET e1 == set_opcode64(e0, 1024)
                 e2 == set_dst(e1, op.dst)
                 e3 == set_reg_src_ref(e2, 8, 16, s0)
                 e4 == set_bit(e3, 55, is_bnot(s0))
                 e5 == set_src_imm32(e4, 20, 52, s1.val)
             IN  IF op.op = "PassB" THEN EncPanic(e5)
                 ELSE set_field64(e5, 53, 55, LogicOpBits(op.op))
        ELSE LET e1 == CASE s1.ref \in {"zero", "reg"} ->
                              set_reg_src_ref(set_opcode64(e0, 23616), 20, 28, s1)
                         [] s1.ref = "imm" ->
                              set_src_imm_i20(set_opcode64(e0, 14400), 20, 39, 56, s1.val)
                         [] s1.ref = "cbuf" ->
                              set_src_cb(set_opcode64(e0, 19520), 20, 39, s1.val)
                         [] OTHER -> EncPanic(e0)
                 e2 == set_dst(e1, op.dst)
                 e3 == set_reg_src_ref(e2, 8, 16, s0)
                 e4 == set_bit(e3, 39, is_bnot(s0))
                 e5 == set_bit(e4, 40, is_bnot(s1))
                 e6 == set_field64(e5, 41, 43, LogicOpBits(op.op))
             IN  set_pred_dst(e6, 48, 51, [ref |-> "none", val |-> <<0, 0>>])

\* OpPopC::encode (1390-1412)
OpPopC_encode(e0, op) ==
    LET s0 == op.srcs[1]
        a0 == IF is_reg_or_zero(s0) THEN e0 ELSE EncPanic(e0)
        e1 == CASE s0.ref = "imm" ->
                     set_src_imm_i20(set_opcode64(a0, 14344), 20, 39, 56, s0.val)
                [] s0.ref = "reg" ->
                     set_reg_src(set_opcode64(a0, 23560), 20, 28, s0)
                [] s0.ref = "cbuf" ->
                     set_src_cb(set_opcode64(a0, 19464), 20, 39, s0.val)
                [] OTHER -> EncPanic(a0)
        e2 == set_bit(e1, 40, s0.mod = "bnot")
    IN  set_dst(e2, op.dst)

\* IntType as the field value of OpShf; the 8- and 16-bit types panic
ShfTypeBits(t) == CASE t \in {"I32", "U32"} -> 0 [] t = "U64" -> 2 [] t = "I64" -> 3

\* OpShf::encode (1424-1457); the sources are <<low, high, shift>>
OpShf_encode(e0, op) ==
    LET low == op.srcs[1]
        high == op.srcs[2]
        shift == op.srcs[3]
        e1 == CASE shift.ref \in {"zero", "reg"} ->
                     set_reg_src(set_opcode64(e0, 23800), 20, 28, shift)
                [] shift.ref = "imm" ->
                     LET x == set_opcode64(e0, 14584)
                     IN  set_src_imm_i20(IF shift.mod = "none" THEN x ELSE EncPanic(x),
                                         20, 39, 56, shift.val)
                [] OTHER -> EncPanic(e0)
        e2 == set_field64(e1, 37, 39, ShfTypeBits(op.data_type))
        e3 == set_dst(e2, op.dst)
        e4 == set_reg_src(e3, 8, 16, low)
        e5 == set_reg_src(e4, 39, 47, high)
        e6 == set_bit(e5, 47, FALSE)
        e7 == set_bit(e6, 48, op.dst_high)
        e8 == set_bit(e7, 49, FALSE)
    IN  set_bit(e8, 50, op.wrap)

\* OpSel::encode (1740-1760)
OpSel_encode(e0, op) ==
    LET s0 == op.srcs[1]
        s1 == op.srcs[2]
        e1 == CASE s1.ref = "imm" ->
                     set_src_imm_i20(set_opcode64(e0, 14496), 20, 39, 56, s1.val)
                [] s1.ref \in {"zero", "reg"} ->
                     set_reg_src_ref(set_opcode64(e0, 23712), 20, 28, s1)
                [] s1.ref = "cbuf" ->
                     set_src_cb(set_opcode64(e0, 19616), 20, 39, s1.val)
                [] OTHER -> EncPanic(e0)
        e2 == set_dst(e1, op.dst)
        e3 == set_reg_src(e2, 8, 16, s0)
    IN  set_pred_src(e3, 39, 42, 42, op.cond)

\* the operations whose encoder is modelled
EncodedKinds ==
    {"FAdd", "FMul", "FSet", "FSetP", "DSetP", "IAdd2", "IMad", "IMul", "Lop2", "PopC",
     "Shf", "Sel"}

\* as_sm50_op(&instr.op).encode(&mut e) (2721)
EncodeByKind(e, op) ==
    CASE op.kind = "FAdd" -> OpFAdd_encode(e, op)
      [] op.kind = "FMul" -> OpFMul_encode(e, op)
      [] op.kind = "FSet" -> OpFSet_encode(e, op)
      [] op.kind = "FSetP" -> OpFSetP_encode(e, op)
      [] op.kind = "DSetP" -> OpDSetP_encode(e, op)
      [] op.kind = "IAdd2" -> OpIAdd2_encode(e, op)
      [] op.kind = "IMad" -> OpIMad_encode(e, op)
      [] op.kind = "IMul" -> OpIMul_encode(e, op)
      [] op.kind = "Lop2" -> OpLop2_encode(e, op)
      [] op.kind = "PopC" -> OpPopC_encode(e, op)
      [] op.kind = "Shf" -> OpShf_encode(e, op)
      [] op.kind = "Sel" -> OpSel_encode(e, op)

\* ---- legalization (SM50Op::legalize of each operation)

\* src_is_reg(src, GPR): a register, or one of the constants that have one
src_is_reg(src) == src.ref \in {"reg", "zero", "true", "false"}

\* swap_srcs_if_not_reg(src0, src1, GPR) swaps when only src1 is a register
WouldSwap(op) == ~src_is_reg(op.srcs[1]) /\ src_is_reg(op.srcs[2])

SwapSrcs(op) == [op EXCEPT !.srcs[1] = op.srcs[2], !.srcs[2] = op.srcs[1]]

swap_srcs_if_not_reg(st) ==
    IF WouldSwap(st.op) THEN [st EXCEPT !.op = SwapSrcs(st.op)] ELSE st

\* the register a new copy is written to
NewReg(st) == 16 + Len(st.b)

\* copy_alu_src: a copy of the source without its modifier is emitted and
\* the source becomes the new register, with the modifier kept
copy_alu_src(st, i) ==
    [op |-> [st.op EXCEPT !.srcs[i] = MkSrc("reg", <<0, NewReg(st)>>, @.mod)],
     b |-> Append(st.b, [dst |-> NewReg(st), src |-> [st.op.srcs[i] EXCEPT !.mod = "none"]])]

\* copy_alu_src_and_lower_fmod: the copy applies the modifier
copy_alu_src_and_lower_fmod(st, i) ==
    [op |-> [st.op EXCEPT !.srcs[i] = MkSrc("reg", <<0, NewReg(st)>>, "none")],
     b |-> Append(st.b, [dst |-> NewReg(st), src |-> st.op.srcs[i]])]

copy_alu_src_if_not_reg(st, i) ==
    IF src_is_reg(st.op.srcs[i]) THEN st ELSE copy_alu_src(st, i)

copy_alu_src_if_imm(st, i) ==
    IF st.op.srcs[i].ref = "imm" THEN copy_alu_src(st, i) ELSE st

\* copy_alu_src_if_fabs (288-292)
copy_alu_src_if_fabs(st, i) ==
    IF has_fabs(st.op.srcs[i]) THEN copy_alu_src_and_lower_fmod(st, i) ELSE st

\* copy_alu_src_if_i20_overflow (294-303)
copy_alu_src_if_i20_overflow(st, i) ==
    IF imm_not_i20(st.op.srcs[i]) THEN copy_alu_src(st, i) ELSE st

\* copy_alu_src_if_f20_overflow (305-314)
copy_alu_src_if_f20_overflow(st, i) ==
    IF imm_not_f20(st.op.srcs[i]) THEN copy_alu_src(st, i) ELSE st

\* FloatCmpOp::flip and IntCmpOp::flip: the comparison with the operands
\* exchanged
FlipCmp(c) ==
    CASE c = "OrdLt" -> "OrdGt" [] c = "OrdGt" -> "OrdLt"
      [] c = "OrdLe" -> "OrdGe" [] c = "OrdGe" -> "OrdLe"
      [] c = "UnordLt" -> "UnordGt" [] c = "UnordGt" -> "UnordLt"
      [] c = "UnordLe" -> "UnordGe" [] c = "UnordGe" -> "UnordLe"
      [] c = "Lt" -> "Gt" [] c = "Gt" -> "Lt"
      [] c = "Le" -> "Ge" [] c = "Ge" -> "Le"
      [] OTHER -> c

\* Src::bnot
SrcBNot(src) == [src EXCEPT !.mod = IF @ = "bnot" THEN "none" ELSE "bnot"]

\* the flag an operation changes when its sources are swapped: comparisons
\* flip cmp_op (679-681, 716-718, 966-968, 1273-1275), OpIMul swaps signed
\* (1185-1187), OpSel negates cond (1733-1735)
SwapFlag(op) ==
    CASE op.kind \in {"FSet", "FSetP", "DSetP", "ISetP"} ->
             [op EXCEPT !.cmp_op = FlipCmp(@)]
      [] op.kind = "IMul" -> [op EXCEPT !.signed = <<@[2], @[1]>>]
      [] op.kind = "Sel" -> [op EXCEPT !.cond = SrcBNot(@)]
      [] OTHER -> op

\* the first step of the legalize of the operations that swap: the flag is
\* changed if swap_srcs_if_not_reg returned true
SwapStep(st) ==
    IF WouldSwap(st.op)
    THEN [swap_srcs_if_not_reg(st) EXCEPT !.op = SwapFlag(@)]
    ELSE swap_srcs_if_not_reg(st)

\* SM50Op::legalize, by operation: OpFAdd 372-377, OpFFma 415-425, OpFMnMx
\* 467-473, OpFMul 500-505, OpFSet 676-684, OpFSetP 713-721, OpDAdd 793-799,
\* OpDFma 826-840, OpDMnMx 888-894, OpDMul 920-928, OpDSetP 963-971, OpIAdd2
\* 1069-1074, OpIMad 1124-1135, OpIMul 1182-1189, OpIMnMx 1230-1236, OpISetP
\* 1270-1278, OpLop2 1320-1325, OpPopC 1386-1388, OpShf 1416-1422, OpSel
\* 1730-1738
legalize(op) ==
    LET st == [op |-> op, b |-> <<>>]
        sw == SwapStep(st)
        sw1 == copy_alu_src_if_not_reg(sw, 1)
        fabs2 == copy_alu_src_if_fabs(copy_alu_src_if_fabs(st, 1), 2)
        fabs3 == copy_alu_src_if_fabs(fabs2, 3)
    IN  CASE op.kind \in {"FAdd", "FMul", "IAdd2", "IMul", "Lop2"} -> sw1
          [] op.kind \in {"FMnMx", "FSet", "FSetP", "DAdd", "DMnMx", "DSetP"} ->
                 copy_alu_src_if_f20_overflow(sw1, 2)
          [] op.kind \in {"IMnMx", "ISetP", "Sel"} ->
                 copy_alu_src_if_i20_overflow(sw1, 2)
          [] op.kind = "FFma" ->
                 copy_alu_src_if_f20_overflow(
                     copy_alu_src_if_not_reg(
                         copy_alu_src_if_not_reg(SwapStep(fabs3), 1), 3), 2)
          [] op.kind = "DFma" ->
                 LET a == copy_alu_src_if_f20_overflow(
                              copy_alu_src_if_not_reg(SwapStep(fabs3), 1), 2)
                 IN  IF src_is_reg(a.op.srcs[2]) THEN copy_alu_src_if_imm(a, 3)
                     ELSE copy_alu_src_if_not_reg(a, 3)
          [] op.kind = "DMul" ->
                 copy_alu_src_if_f20_overflow(
                     copy_alu_src_if_not_reg(SwapStep(fabs2), 1), 2)
          [] op.kind = "IMad" ->
                 IF src_is_reg(sw1.op.srcs[2]) THEN copy_alu_src_if_imm(sw1, 3)
                 ELSE copy_alu_src_if_not_reg(copy_alu_src_if_i20_overflow(sw1, 2), 3)
          [] op.kind = "PopC" -> st
          [] op.kind = "Shf" ->
                 copy_alu_src_if_i20_overflow(
                     copy_alu_src_if_not_reg(
                         copy_alu_src_if_not_reg(
                             copy_alu_src_if_not_reg(st, 3), 2), 1), 3)

\* ---- one instruction through legalize and encode

\* the value part of a source of the given kind; source i is register i and
\* the constant buffer is c[1][16]
RefVal(ref, i) ==
    CASE ref = "reg" -> <<0, i>> [] ref = "zero" -> <<0, 0>> [] ref = "cbuf" -> <<1, 16>>

\* the sources drawn for position i: a register, zero or a bound constant
\* buffer with each permitted modifier, and the immediates (folded, so
\* without a modifier)
SrcsOf(i, mods, imms) ==
    {MkSrc(r, RefVal(r, i), m) : r \in {"reg", "zero", "cbuf"}, m \in mods} \cup
    {MkSrc("imm", v, "none") : v \in imms}

\* 1.0f fits the 20-bit float form and 5 the 20-bit integer form;
\* 0x00123456 fits neither
FImms == {<<16256, 0>>, <<18, 13398>>}

IImms == {<<0, 5>>, <<18, 13398>>}

F32Srcs(i) == SrcsOf(i, {"none", "fabs", "fneg", "fnegabs"}, FImms)

I32Srcs(i) == SrcsOf(i, {"none", "ineg"}, IImms)

B32Srcs(i) == SrcsOf(i, {"none", "bnot"}, IImms)

ALUSrcs(i) == SrcsOf(i, {"none"}, IImms)

\* an instruction with every field at its default; it is not predicated
OpBase(kind, srcs) ==
    [kind |-> kind, srcs |-> srcs,
     dst |-> [ref |-> "reg", val |-> <<0, 4>>],
     ftz |-> FALSE, dnz |-> FALSE, saturate |-> FALSE, rnd_mode |-> "NearestEven",
     cmp_op |-> "none", set_op |-> 0, accum |-> MkSrc("true", <<0, 0>>, "none"),
     min |-> MkSrc("true", <<0, 0>>, "none"),
     op |-> "none", signed |-> <<FALSE, FALSE>>, high |-> FALSE,
     cond |-> MkSrc("preg", <<0, 1>>, "none"),
     right |-> FALSE, wrap |-> FALSE, dst_high |-> FALSE, data_type |-> "U32",
     pred |-> [ref |-> "none", val |-> <<0, 0>>, pred_inv |-> FALSE]]

FloatCmpChoices == {"OrdLt", "OrdGe", "UnordLe", "OrdEq", "IsNan"}

IntCmpChoices == {"Eq", "Ne", "Lt", "Le", "Gt", "Ge"}

\* the instructions drawn, by operation
OpChoices ==
    LET F2 == {<<a, b>> : a \in F32Srcs(1), b \in F32Srcs(2)}
        F3 == {<<a, b, c>> : a \in F32Srcs(1), b \in F32Srcs(2), c \in F32Srcs(3)}
        A2 == {<<a, b>> : a \in ALUSrcs(1), b \in ALUSrcs(2)}
        A3 == {<<a, b, c>> : a \in ALUSrcs(1), b \in ALUSrcs(2), c \in ALUSrcs(3)}
        minmax == {MkSrc("true", <<0, 0>>, "none"), MkSrc("false", <<0, 0>>, "none")}
    IN  {OpBase(k, s) : k \in {"FAdd", "FMul", "DAdd", "DMul"}, s \in F2} \cup
        {OpBase(k, s) : k \in {"FFma", "DFma"}, s \in F3} \cup
        {[OpBase(k, s) EXCEPT !.min = m] : k \in {"FMnMx", "DMnMx"}, s \in F2, m \in minmax} \cup
        {[OpBase(k, s) EXCEPT !.cmp_op = c, !.dst = [ref |-> "reg", val |-> <<0, 2>>]] :
            k \in {"FSet", "FSetP", "DSetP"}, s \in F2, c \in FloatCmpChoices} \cup
        {OpBase("IAdd2", <<a, b>>) : a \in I32Srcs(1), b \in I32Srcs(2)} \cup
        {[OpBase("IMad", s) EXCEPT !.signed = <<g, g>>] : s \in A3, g \in BOOLEAN} \cup
        {[OpBase("IMul", s) EXCEPT !.signed = <<g, h>>] : s \in A2, g \in BOOLEAN, h \in BOOLEAN} \cup
        {[OpBase("IMnMx", s) EXCEPT !.min = m] : s \in A2, m \in minmax} \cup
        {[OpBase("ISetP", s) EXCEPT !.cmp_op = c, !.dst = [ref |-> "reg", val |-> <<0, 2>>]] :
            s \in A2, c \in IntCmpChoices} \cup
        {[OpBase("Lop2", <<a, b>>) EXCEPT !.op = o] :
            a \in B32Srcs(1), b \in B32Srcs(2), o \in {"And", "Or", "Xor", "PassB"}} \cup
        {[OpBase("Sel", s) EXCEPT !.cond = MkSrc("preg", <<0, 1>>, m)] :
            s \in A2, m \in {"none", "bnot"}} \cup
        {OpBase("PopC", <<a>>) : a \in B32Srcs(1)} \cup
        {[OpBase("Shf", s) EXCEPT !.right = r, !.dst_high = h, !.wrap = w, !.data_type = t] :
            s \in A3, r \in BOOLEAN, h \in BOOLEAN, w \in BOOLEAN, t \in {"U32", "U64"}}

\* ShaderModel50::legalize_op (46-48)
LegalizeOp ==
    /\ op_pc = "built"
    /\ op_leg' = legalize(op_in).op
    /\ op_copies' = legalize(op_in).b
    /\ op_pc' = "legalized"
    /\ UNCHANGED <<op_in, op_e, imm_in, imm_out, imm_pc>>

\* the Some branch of encode_instr (2713-2723): the encoder of the
\* operation, then set_pred; a panic ends the run
EncodeInstr ==
    /\ op_pc = "legalized"
    /\ op_leg.kind \in EncodedKinds
    /\ LET e == set_pred64(EncodeByKind(NewEnc, op_leg), op_leg.pred)
       IN  /\ op_e' = e
           /\ op_pc' = IF e.st = "ok" THEN "encoded" ELSE "panicked"
    /\ UNCHANGED <<op_in, op_leg, op_copies, imm_in, imm_out, imm_pc>>

InstrSpecInit ==
    /\ KernelInit
    /\ DispatchIdle
    /\ SerdeIdle
    /\ CacheIdle
    /\ LowerIdle
    /\ LocalSizeIdle
    /\ EncodeIdle
    /\ op_in \in OpChoices
    /\ op_leg = <<>>
    /\ op_copies = <<>>
    /\ op_e = <<>>
    /\ op_pc = "built"
    /\ imm_in = <<>>
    /\ imm_out = <<>>
    /\ imm_pc = "none"

InstrSpecNext ==
    /\ \/ LegalizeOp
       \/ EncodeInstr
    /\ UNCHANGED <<kvars, dvars, svars, cvars, lvars, zvars, evars>>

SpecInstr == InstrSpecInit /\ [][InstrSpecNext]_vars

\* C21: for every operation with an encoder and every combination of source
\* kinds and permitted modifiers, legalize followed by encode reaches no
\* panic and no failed assertion.
C21_Original == op_pc # "panicked"

\* the combinations that end in a panic: a constant-buffer second source of
\* OpDSetP is handed to set_reg_fmod_src (989-992), OpPopC asserts
\* is_reg_or_zero but is never legalized, does not take zero and hands its
\* register to set_reg_src, which refuses the bnot it encodes (1385-1410),
\* OpIMad takes no zero third source (1141-1162), OpLop2 has no PASS_B with a
\* 32-bit immediate (1341-1343), OpFMul hands a register second source to
\* set_reg_src, which asserts that it has no modifier (529-532)
KnownPanic(op) ==
    \/ op.kind = "DSetP" /\ op.srcs[2].ref = "cbuf"
    \/ op.kind = "PopC" /\ ~(op.srcs[1].ref = "reg" /\ op.srcs[1].mod = "none")
    \/ op.kind = "IMad" /\ op.srcs[3].ref = "zero"
    \/ op.kind = "Lop2" /\ op.op = "PassB" /\ imm_not_i20(op.srcs[2])
    \/ op.kind = "FMul" /\ is_reg_or_zero(op.srcs[2]) /\ op.srcs[2].mod # "none"

\* every other combination is encoded, and those above panic
PanicsOnlyWhereKnown ==
    /\ op_pc = "panicked" => KnownPanic(op_leg)
    /\ op_pc = "encoded" => ~KnownPanic(op_leg)

\* ---- an add with an immediate that does not fit 20 bits (C22)

\* the immediate 0x00123456
BigImm == MkSrc("imm", <<18, 13398>>, "none")

\* an OpIAdd2 or OpFAdd whose second operand is 0x00123456 was legalized
AddOfBigImm ==
    /\ op_pc \in {"legalized", "encoded", "panicked"}
    /\ op_in.kind \in {"IAdd2", "FAdd"}
    /\ op_in.srcs[2] = BigImm

\* the field of the given range the encoder wrote, if it wrote exactly one
Wrote(lo, hi, val) ==
    \E k \in 1..Len(op_e.w) : op_e.w[k] = [lo |-> lo, hi |-> hi, val |-> val]

WritesAt(e, b) == {k \in 1..Len(e.w) : e.w[k].lo <= b /\ b < e.w[k].hi}

\* the last of a non-empty set of write indices
LastOf(ks) == CHOOSE k \in ks : \A j \in ks : j <= k

\* bit b of the value that write k put there
WrittenBit(e, k, b) == Bit(e.w[k].val, b - e.w[k].lo)

\* inst as the 64 bits it holds after the writes: the last write of a bit
\* decides it, a bit never written is 0
Word(e) ==
    [b \in 0..63 |-> IF WritesAt(e, b) = {} THEN 0
                     ELSE WrittenBit(e, LastOf(WritesAt(e, b)), b)]

\* the word of an instruction that was legalized: its encoder, then set_pred
WordOf(op) == Word(set_pred64(EncodeByKind(NewEnc, op), op.pred))

\* C29: two OpShf that differ only in `right`, with dst_high set as the
\* hardware test requires below SM 70 for a left shift, encode to different
\* instruction words.
C29_Original ==
    (op_pc = "encoded" /\ op_leg.kind = "Shf" /\ op_leg.dst_high) =>
        Word(op_e) # WordOf([op_leg EXCEPT !.right = ~@])

\* the fields of OpShf that do reach the word: dst_high and wrap
ShfOtherFlagsEncoded ==
    (op_pc = "encoded" /\ op_leg.kind = "Shf") =>
        /\ Word(op_e) # WordOf([op_leg EXCEPT !.dst_high = ~@])
        /\ Word(op_e) # WordOf([op_leg EXCEPT !.wrap = ~@])
        /\ Word(op_e) = WordOf([op_leg EXCEPT !.right = ~@])

\* ---- the fields of one instruction word (C28)

\* the writes of the per-opcode encoder: all but the two of set_pred, which
\* come last
OpWrites(e) == 1..(Len(e.w) - 2)

IsOpcodeWrite(w) == w.lo = 48 /\ w.hi = 64

Overlap(w1, w2) == w1.lo < w2.hi /\ w2.lo < w1.hi

\* write k is still in the word, bit by bit; the opcode is left out, since
\* the flags of a form are written into the low bits of its range
Survives(e, k) ==
    \/ IsOpcodeWrite(e.w[k])
    \/ \A b \in e.w[k].lo..(e.w[k].hi - 1) : Word(e)[b] = WrittenBit(e, k, b)

EveryFieldSurvives ==
    op_pc = "encoded" => \A k \in 1..Len(op_e.w) : Survives(op_e, k)

\* C28: the bit ranges written while encoding one instruction are pairwise
\* disjoint (the opcode shares its range with the flags of the form and is
\* left out), set_pred writes no bit the encoder of the operation wrote, and
\* so every field written is in the emitted word.
C28_Original ==
    op_pc = "encoded" =>
        /\ \A j, k \in OpWrites(op_e) :
              (j < k /\ ~IsOpcodeWrite(op_e.w[j]) /\ ~IsOpcodeWrite(op_e.w[k]))
                  => ~Overlap(op_e.w[j], op_e.w[k])
        /\ \A k \in OpWrites(op_e) :
              ~Overlap(op_e.w[k], [lo |-> 16, hi |-> 20])
        /\ \A k \in 1..Len(op_e.w) : Survives(op_e, k)

\* the operations whose word loses a field: OpFMul and OpFSet
FieldsLostOnlyIn ==
    (op_pc = "encoded" /\ op_leg.kind \notin {"FMul", "FSet"}) =>
        \A k \in 1..Len(op_e.w) : Survives(op_e, k)

\* ---- what an instruction computes (C24)

\* Values are abstracted: integers are 2 bits wide (0..3), floats are -2..2
\* and the NaN, written 9. An environment gives the registers r1..r3, the
\* constant buffer word and the predicate p1 their values.
NaN == 9

FloatKinds ==
    {"FAdd", "FMul", "FFma", "FMnMx", "FSet", "FSetP", "DAdd", "DFma", "DMnMx", "DMul", "DSetP"}

Envs(kind) ==
    LET D == IF kind \in FloatKinds THEN {-1, 0, 1, NaN} ELSE 0..3
    IN  [r1 : D, r2 : D, r3 : IF kind \in {"FFma", "DFma", "IMad"} THEN D ELSE {0},
         cb : D, p1 : BOOLEAN]

Abs(x) == IF x < 0 THEN -x ELSE x

\* a source modifier applied to a value
ModValue(mod, x) ==
    CASE mod = "none" -> x
      [] mod = "fabs" -> IF x = NaN THEN NaN ELSE Abs(x)
      [] mod = "fneg" -> IF x = NaN THEN NaN ELSE -x
      [] mod = "fnegabs" -> IF x = NaN THEN NaN ELSE -Abs(x)
      [] mod = "ineg" -> (4 - x) % 4
      [] mod = "bnot" -> 3 - x

\* the value of a source of the instruction as built: 1.0f is 1, the
\* denormal 0x00123456 is 0, an integer immediate is its low two bits
BaseValue(src, env, float) ==
    CASE src.ref = "zero" -> 0
      [] src.ref = "imm" -> IF float THEN (IF src.val = <<16256, 0>> THEN 1 ELSE 0)
                            ELSE src.val[2] % 4
      [] src.ref = "cbuf" -> env.cb
      [] src.ref = "reg" -> CASE src.val[2] = 1 -> env.r1 [] src.val[2] = 2 -> env.r2
                              [] OTHER -> env.r3

\* the value of a source after legalization: a register from 16 on holds
\* what the copy that wrote it read
SrcValue(src, copies, env, float) ==
    IF src.ref = "reg" /\ src.val[2] >= 16
    THEN LET c == copies[src.val[2] - 15].src
         IN  ModValue(src.mod, ModValue(c.mod, BaseValue(c, env, float)))
    ELSE ModValue(src.mod, BaseValue(src, env, float))

FAddValue(a, b) == IF a = NaN \/ b = NaN THEN NaN ELSE a + b

FMulValue(a, b) == IF a = NaN \/ b = NaN THEN NaN ELSE a * b

\* min or max; a NaN operand yields the other operand
MnMxValue(a, b, min) ==
    CASE a = NaN -> b
      [] b = NaN -> a
      [] OTHER -> IF min THEN (IF a < b THEN a ELSE b) ELSE (IF a < b THEN b ELSE a)

\* FloatCmpOp and IntCmpOp
CmpValue(c, a, b) ==
    LET nan == a = NaN \/ b = NaN
    IN  CASE c \in {"OrdLt", "Lt"} -> ~nan /\ a < b
          [] c \in {"OrdGt", "Gt"} -> ~nan /\ a > b
          [] c \in {"OrdLe", "Le"} -> ~nan /\ a <= b
          [] c \in {"OrdGe", "Ge"} -> ~nan /\ a >= b
          [] c \in {"OrdEq", "Eq"} -> ~nan /\ a = b
          [] c \in {"OrdNe", "Ne"} -> ~nan /\ a # b
          [] c = "UnordLt" -> nan \/ a < b
          [] c = "UnordGt" -> nan \/ a > b
          [] c = "UnordLe" -> nan \/ a <= b
          [] c = "UnordGe" -> nan \/ a >= b
          [] c = "UnordEq" -> nan \/ a = b
          [] c = "UnordNe" -> nan \/ a # b
          [] c = "IsNum" -> ~nan
          [] c = "IsNan" -> nan

\* a 2-bit value read as signed or unsigned
AsSigned(x, signed) == IF signed /\ x >= 2 THEN x - 4 ELSE x

\* OpIMul: the low or the high two bits of the 4-bit product
IMulValue(a, b, signed, high) ==
    LET prod == (AsSigned(a, signed[1]) * AsSigned(b, signed[2])) % 16
    IN  IF high THEN prod \div 4 ELSE prod % 4

\* LogicOp2 on two bits
RECURSIVE LopValue(_, _, _, _)
LopValue(o, a, b, n) ==
    IF n = 0 THEN 0
    ELSE LET x == a % 2
             y == b % 2
             z == CASE o = "And" -> x * y
                    [] o = "Or" -> IF x + y > 0 THEN 1 ELSE 0
                    [] o = "Xor" -> (x + y) % 2
                    [] o = "PassB" -> y
         IN  z + 2 * LopValue(o, a \div 2, b \div 2, n - 1)

\* the result of an instruction whose sources may have been replaced by
\* copies
Eval(op, copies, env) ==
    LET float == op.kind \in FloatKinds
        a == SrcValue(op.srcs[1], copies, env, float)
        b == SrcValue(op.srcs[2], copies, env, float)
        c == SrcValue(op.srcs[3], copies, env, float)
    IN  CASE op.kind \in {"FAdd", "DAdd"} -> FAddValue(a, b)
          [] op.kind \in {"FMul", "DMul"} -> FMulValue(a, b)
          [] op.kind \in {"FFma", "DFma"} -> FAddValue(FMulValue(a, b), c)
          [] op.kind \in {"FMnMx", "DMnMx", "IMnMx"} -> MnMxValue(a, b, op.min.ref = "true")
          [] op.kind \in {"FSet", "FSetP", "DSetP", "ISetP"} -> CmpValue(op.cmp_op, a, b)
          [] op.kind = "IAdd2" -> (a + b) % 4
          [] op.kind = "IMad" -> (a * b + c) % 4
          [] op.kind = "IMul" -> IMulValue(a, b, op.signed, op.high)
          [] op.kind = "Lop2" -> LopValue(op.op, a, b, 2)
          [] op.kind = "Sel" -> IF env.p1 # is_bnot(op.cond) THEN a ELSE b

\* the operations whose legalize calls swap_srcs_if_not_reg
SwapKinds ==
    {"FAdd", "FMul", "FFma", "FMnMx", "FSet", "FSetP", "DAdd", "DFma", "DMnMx", "DMul",
     "DSetP", "IAdd2", "IMad", "IMul", "IMnMx", "ISetP", "Lop2", "Sel"}

\* legalize swapped the first two sources of the instruction: the first
\* one, as it was after the lowering of fabs that OpFFma, OpDFma and OpDMul
\* do first, was no register and the second one was
WasSwapped(op) ==
    /\ op.kind \in SwapKinds
    /\ LET lowered(i) == op.kind \in {"FFma", "DFma", "DMul"} /\ has_fabs(op.srcs[i])
       IN  /\ ~src_is_reg(op.srcs[1]) /\ ~lowered(1)
           /\ src_is_reg(op.srcs[2]) \/ lowered(2)

\* C24: whenever legalize swaps the first two sources, the instruction
\* computes the same result as before for every input (comparisons flip
\* cmp_op, OpSel negates its condition, OpIMul swaps its signedness flags,
\* every other operation, with every logic op of OpLop2, is symmetric).
C24_Original ==
    (op_pc \in {"legalized", "encoded", "panicked"} /\ WasSwapped(op_in)) =>
        \A env \in Envs(op_in.kind) :
            Eval(op_in, <<>>, env) = Eval(op_leg, op_copies, env)

\* the swap is wrong for PassB of OpLop2 only, and without a swap legalize
\* keeps the result of every operation
SwapWrongOnlyForPassB ==
    (/\ op_pc \in {"legalized", "encoded", "panicked"}
     /\ op_in.kind \in SwapKinds
     /\ ~(op_in.kind = "Lop2" /\ op_in.op = "PassB" /\ WasSwapped(op_in))) =>
        \A env \in Envs(op_in.kind) :
            Eval(op_in, <<>>, env) = Eval(op_leg, op_copies, env)

Init == KernelInit /\ DispatchIdle /\ SerdeIdle /\ CacheIdle /\ LowerIdle /\ LocalSizeIdle /\ EncodeIdle /\ InstrIdle

Next == KernelNext /\ UNCHANGED <<dvars, svars, cvars, lvars, zvars, evars, ovars>>

Spec == Init /\ [][Next]_vars

====
